---- MODULE Spec2Model ----
(***************************************************************************)
(* Model of the slash-command template execution pipeline:                 *)
(*   CommandExecutor (executor.py), TemplateProcessor                      *)
(*   (template_processor.py), CommandParser.substitute_variables           *)
(*   (parser.py) and CommandRegistry (registry.py).                        *)
(*                                                                         *)
(* Text is a sequence of one-character strings.  Positions follow Python:  *)
(* a position p lies before character p+1, a span is [start, end).         *)
(***************************************************************************)
EXTENDS Integers, Sequences, FiniteSets, TLC

\* ------------------------------------------------------------------------
\* Characters and Python string primitives
\* ------------------------------------------------------------------------

NL == "\n"

\* the backquote character (written as a name: the lexer rejects it in a string)
BQ == "backquote"

Letters == {"a","b","c","d","e","f","g","h","i","j","k","l","m","n","o","p",
            "q","r","s","t","u","v","w","x","y","z",
            "A","B","C","D","E","F","G","H","I","J","K","L","M","N","O","P",
            "Q","R","S","T","U","V","W","X","Y","Z"}

Digits == {"0","1","2","3","4","5","6","7","8","9"}

\* regex class \w
WordChars == Letters \cup Digits \cup {"_"}

\* regex class \s, and the characters str.strip() removes
SpaceChars == {" ", NL, "\t", "\r"}

Min(a, b) == IF a <= b THEN a ELSE b

Max(a, b) == IF a >= b THEN a ELSE b

\* Python slice t[a:b] for 0 <= a
Slice(t, a, b) == SubSeq(t, a + 1, Min(b, Len(t)))

\* Python slice t[a:]
From(t, a) == SubSeq(t, a + 1, Len(t))

\* t.startswith(p, at)
StartsWithAt(t, p, at) ==
    /\ at + Len(p) <= Len(t)
    /\ \A i \in 1..Len(p) : t[at + i] = p[i]

\* t.find(p, from): lowest position >= from where p occurs, -1 if none
Find(t, p, from) ==
    LET hits == {i \in from..(Len(t) - Len(p)) : StartsWithAt(t, p, i)}
    IN  IF hits = {} THEN -1 ELSE CHOOSE i \in hits : \A j \in hits : i <= j

\* t.rfind(p): highest position where p occurs, -1 if none
RFind(t, p) ==
    LET hits == {i \in 0..(Len(t) - Len(p)) : StartsWithAt(t, p, i)}
    IN  IF hits = {} THEN -1 ELSE CHOOSE i \in hits : \A j \in hits : i >= j

\* p in t
Contains(t, p) == Find(t, p, 0) # -1

\* t.replace(old, new, 1): first occurrence only
ReplaceFirst(t, old, new) ==
    LET i == Find(t, old, 0)
    IN  IF i = -1 THEN t ELSE Slice(t, 0, i) \o new \o From(t, i + Len(old))

\* t.rstrip()
RStrip(t) ==
    LET keep == {i \in 0..Len(t) : \A k \in (i + 1)..Len(t) : t[k] \in SpaceChars}
    IN  Slice(t, 0, CHOOSE i \in keep : \A j \in keep : i <= j)

\* t.lstrip()
LStrip(t) ==
    LET drop == {i \in 0..Len(t) : \A k \in 1..i : t[k] \in SpaceChars}
    IN  From(t, CHOOSE i \in drop : \A j \in drop : i >= j)

\* t.strip()
Strip(t) == LStrip(RStrip(t))

\* end of the maximal run of characters of class C starting at position p
RunEnd(t, p, C) ==
    CHOOSE j \in p..Len(t) :
        /\ \A k \in (p + 1)..j : t[k] \in C
        /\ (j = Len(t) \/ t[j + 1] \notin C)

\* end of the line that holds position p: the next newline at or after p
LineEnd(t, p) ==
    CHOOSE j \in p..Len(t) :
        /\ \A k \in (p + 1)..j : t[k] # NL
        /\ (j = Len(t) \/ t[j + 1] = NL)

\* ------------------------------------------------------------------------
\* Regular expressions of the source, as matchers over text
\* ------------------------------------------------------------------------

NoMatch == [ok |-> FALSE]

\* character class [\w-] of COMMAND_PATTERN
NameChars == WordChars \cup {"-"}

\* COMMAND_PATTERN.match at position s:
\*   (?<![:/])/ ([\w-]+(?::[\w-]+)?) (?:\s+(.+?))? $   with re.MULTILINE
\* The name and namespace runs are greedy and cannot be shortened (the
\* character after a shortened run is a name character, which neither
\* \s, ':' nor $ accepts).  \s+ is greedy and backtracks one character at
\* a time until the lazy (.+?) finds a non-newline character; the lazy
\* group then extends to the end of that line.  Without arguments the
\* match must stand at the end of a line.
CommandMatchAt(t, s) ==
    IF ~(s < Len(t) /\ t[s + 1] = "/" /\ (s = 0 \/ t[s] \notin {":", "/"}))
    THEN NoMatch
    ELSE
      LET q  == RunEnd(t, s + 1, NameChars)
          n  == IF q < Len(t) /\ t[q + 1] = ":" THEN RunEnd(t, q + 1, NameChars) ELSE q
          q2 == IF n > q + 1 THEN n ELSE q
          w  == RunEnd(t, q2, SpaceChars)
          starts == {r \in (q2 + 1)..w : r < Len(t) /\ t[r + 1] # NL}
          r  == CHOOSE x \in starts : \A y \in starts : x >= y
      IN  IF q = s + 1 THEN NoMatch
          ELSE IF starts # {}
          THEN [ok |-> TRUE, start |-> s, end |-> LineEnd(t, r),
                group1 |-> Slice(t, s + 1, q2), group2 |-> Slice(t, r, LineEnd(t, r))]
          ELSE IF q2 = Len(t) \/ t[q2 + 1] = NL
          THEN [ok |-> TRUE, start |-> s, end |-> q2,
                group1 |-> Slice(t, s + 1, q2), group2 |-> <<>>]
          ELSE NoMatch

RECURSIVE CommandFindFrom(_, _)
\* COMMAND_PATTERN.finditer(t), scanning from position p
CommandFindFrom(t, p) ==
    LET hits == {s \in p..Len(t) : CommandMatchAt(t, s).ok}
        s0   == CHOOSE s \in hits : \A y \in hits : s <= y
        m    == CommandMatchAt(t, s0)
    IN  IF hits = {} THEN <<>> ELSE <<m>> \o CommandFindFrom(t, m.end)

\* list(COMMAND_PATTERN.finditer(content))
CommandFindIter(t) == CommandFindFrom(t, 0)

\* BASH_INLINE_PATTERN.match at position s:  !`([^`]+)`
BashInlineMatchAt(t, s) ==
    IF ~StartsWithAt(t, <<"!", BQ>>, s) THEN NoMatch
    ELSE LET e == Find(t, <<BQ>>, s + 2)
         IN  IF e = -1 \/ e = s + 2 THEN NoMatch
             ELSE [ok |-> TRUE, start |-> s, end |-> e + 1,
                   group0 |-> Slice(t, s, e + 1), group1 |-> Slice(t, s + 2, e)]

RECURSIVE BashInlineFindFrom(_, _)
\* BASH_INLINE_PATTERN.finditer(t), scanning from position p
BashInlineFindFrom(t, p) ==
    LET hits == {s \in p..Len(t) : BashInlineMatchAt(t, s).ok}
        s0   == CHOOSE s \in hits : \A y \in hits : s <= y
        m    == BashInlineMatchAt(t, s0)
    IN  IF hits = {} THEN <<>> ELSE <<m>> \o BashInlineFindFrom(t, m.end)

BashInlineFindIter(t) == BashInlineFindFrom(t, 0)

BlockOpen == <<"!", BQ, BQ, BQ, NL>>

BlockClose == <<NL, BQ, BQ, BQ>>

\* BASH_BLOCK_PATTERN.match at position s:  !```\n(.*?)\n```  with re.DOTALL
\* The lazy body ends at the first closing fence at or after the opener.
BashBlockMatchAt(t, s) ==
    IF ~StartsWithAt(t, BlockOpen, s) THEN NoMatch
    ELSE LET e == Find(t, BlockClose, s + Len(BlockOpen))
         IN  IF e = -1 THEN NoMatch
             ELSE [ok |-> TRUE, start |-> s, end |-> e + Len(BlockClose),
                   group0 |-> Slice(t, s, e + Len(BlockClose)),
                   group1 |-> Slice(t, s + Len(BlockOpen), e)]

RECURSIVE BashBlockFindFrom(_, _)
\* BASH_BLOCK_PATTERN.finditer(t), scanning from position p
BashBlockFindFrom(t, p) ==
    LET hits == {s \in p..Len(t) : BashBlockMatchAt(t, s).ok}
        s0   == CHOOSE s \in hits : \A y \in hits : s <= y
        m    == BashBlockMatchAt(t, s0)
    IN  IF hits = {} THEN <<>> ELSE <<m>> \o BashBlockFindFrom(t, m.end)

BashBlockFindIter(t) == BashBlockFindFrom(t, 0)

\* character class [\w./-] of FILE_REF_PATTERN
PathChars == WordChars \cup {".", "/", "-"}

\* FILE_REF_PATTERN.match at position s:  @([\w./-]+)
FileRefMatchAt(t, s) ==
    IF ~(s < Len(t) /\ t[s + 1] = "@") THEN NoMatch
    ELSE LET e == RunEnd(t, s + 1, PathChars)
         IN  IF e = s + 1 THEN NoMatch
             ELSE [ok |-> TRUE, start |-> s, end |-> e,
                   group0 |-> Slice(t, s, e), group1 |-> Slice(t, s + 1, e)]

RECURSIVE FileRefFindFrom(_, _)
\* FILE_REF_PATTERN.finditer(t), scanning from position p
FileRefFindFrom(t, p) ==
    LET hits == {s \in p..Len(t) : FileRefMatchAt(t, s).ok}
        s0   == CHOOSE s \in hits : \A y \in hits : s <= y
        m    == FileRefMatchAt(t, s0)
    IN  IF hits = {} THEN <<>> ELSE <<m>> \o FileRefFindFrom(t, m.end)

FileRefFindIter(t) == FileRefFindFrom(t, 0)

\* ------------------------------------------------------------------------
\* CommandParser.substitute_variables (parser.py)
\* ------------------------------------------------------------------------

RECURSIVE SplitFrom(_, _)
\* args.split(): the maximal runs of non-whitespace characters from position p
SplitFrom(t, p) ==
    LET a == RunEnd(t, p, SpaceChars)
        NonSpace == {t[k] : k \in 1..Len(t)} \ SpaceChars
        b == RunEnd(t, a, NonSpace)
    IN  IF a = Len(t) THEN <<>> ELSE <<Slice(t, a, b)>> \o SplitFrom(t, b)

\* args.split() if args else []
Split(t) == SplitFrom(t, 0)

DigitVal(c) ==
    CASE c = "0" -> 0 [] c = "1" -> 1 [] c = "2" -> 2 [] c = "3" -> 3
      [] c = "4" -> 4 [] c = "5" -> 5 [] c = "6" -> 6 [] c = "7" -> 7
      [] c = "8" -> 8 [] c = "9" -> 9

RECURSIVE ParseInt(_)
\* int(digits) for a non-empty run of decimal digits
ParseInt(d) ==
    IF Len(d) = 0 THEN 0
    ELSE 10 * ParseInt(SubSeq(d, 1, Len(d) - 1)) + DigitVal(d[Len(d)])

ARGUMENTS == <<"A", "R", "G", "U", "M", "E", "N", "T", "S">>

\* VARIABLE_PATTERN.match at position s:
\*   \{\{(\$\d+|\$ARGUMENTS)\s+or\s+\"([^\"]*)\"\}\}
VariableMatchAt(t, s) ==
    IF ~StartsWithAt(t, <<"{", "{", "$">>, s) THEN NoMatch
    ELSE
      LET d  == RunEnd(t, s + 3, Digits)
          v  == IF d > s + 3 THEN d
                ELSE IF StartsWithAt(t, ARGUMENTS, s + 3) THEN s + 3 + Len(ARGUMENTS)
                ELSE -1
          w1 == RunEnd(t, v, SpaceChars)
          w2 == RunEnd(t, w1 + 2, SpaceChars)
          q  == Find(t, <<"\"">>, w2 + 1)
      IN  IF v = -1 \/ w1 = v \/ ~StartsWithAt(t, <<"o", "r">>, w1) THEN NoMatch
          ELSE IF w2 = w1 + 2 \/ ~StartsWithAt(t, <<"\"">>, w2) THEN NoMatch
          ELSE IF q = -1 \/ ~StartsWithAt(t, <<"\"", "}", "}">>, q) THEN NoMatch
          ELSE [ok |-> TRUE, start |-> s, end |-> q + 3,
                group0 |-> Slice(t, s, q + 3),
                group1 |-> Slice(t, s + 2, v), group2 |-> Slice(t, w2 + 1, q)]

\* replace_with_fallback(match) for arguments args
ReplaceWithFallback(m, args) ==
    LET arg_list == Split(args)
        pos == ParseInt(From(m.group1, 1))
    IN  IF m.group1 = <<"$">> \o ARGUMENTS
        THEN (IF Len(args) > 0 THEN args ELSE m.group2)
        ELSE IF pos > 0 /\ pos <= Len(arg_list) THEN arg_list[pos] ELSE m.group2

RECURSIVE VariableSubFrom(_, _, _)
\* VARIABLE_PATTERN.sub(replace_with_fallback, t), scanning from position p
VariableSubFrom(t, p, args) ==
    LET hits == {s \in p..Len(t) : VariableMatchAt(t, s).ok}
        s0   == CHOOSE s \in hits : \A y \in hits : s <= y
        m    == VariableMatchAt(t, s0)
    IN  IF hits = {} THEN From(t, p)
        ELSE Slice(t, p, s0) \o ReplaceWithFallback(m, args)
                 \o VariableSubFrom(t, m.end, args)

\* SIMPLE_VARIABLE_PATTERN.match at position s:  \$(\d+|\bARGUMENTS\b)
SimpleVariableMatchAt(t, s) ==
    IF ~(s < Len(t) /\ t[s + 1] = "$") THEN NoMatch
    ELSE
      LET d == RunEnd(t, s + 1, Digits)
          a == s + 1 + Len(ARGUMENTS)
      IN  IF d > s + 1
          THEN [ok |-> TRUE, start |-> s, end |-> d,
                group0 |-> Slice(t, s, d), group1 |-> Slice(t, s + 1, d)]
          ELSE IF StartsWithAt(t, ARGUMENTS, s + 1)
                  /\ (a = Len(t) \/ t[a + 1] \notin WordChars)
          THEN [ok |-> TRUE, start |-> s, end |-> a,
                group0 |-> Slice(t, s, a), group1 |-> ARGUMENTS]
          ELSE NoMatch

\* a bare variable out of range replaced by nothing
ReplaceSimple_Blank(m, args) ==
    LET arg_list == Split(args)
        pos == ParseInt(m.group1)
    IN  IF m.group1 = ARGUMENTS THEN args
        ELSE IF pos > 0 /\ pos <= Len(arg_list) THEN arg_list[pos]
        ELSE <<>>

\* replace_simple(match) for arguments args
ReplaceSimple(m, args) ==
    LET arg_list == Split(args)
        pos == ParseInt(m.group1)
    IN  IF m.group1 = ARGUMENTS THEN args
        ELSE IF pos > 0 /\ pos <= Len(arg_list) THEN arg_list[pos]
        ELSE m.group0

RECURSIVE SimpleVariableSubFrom(_, _, _)
\* SIMPLE_VARIABLE_PATTERN.sub(replace_simple, t), scanning from position p
SimpleVariableSubFrom(t, p, args) ==
    LET hits == {s \in p..Len(t) : SimpleVariableMatchAt(t, s).ok}
        s0   == CHOOSE s \in hits : \A y \in hits : s <= y
        m    == SimpleVariableMatchAt(t, s0)
    IN  IF hits = {} THEN From(t, p)
        ELSE Slice(t, p, s0) \o ReplaceSimple(m, args)
                 \o SimpleVariableSubFrom(t, m.end, args)

\* CommandParser.substitute_variables(template, args): fallback pass, then
\* bare pass over the result of the fallback pass
substitute_variables(template, args) ==
    SimpleVariableSubFrom(VariableSubFrom(template, 0, args), 0, args)

\* ------------------------------------------------------------------------
\* Formatting helpers (f-strings)
\* ------------------------------------------------------------------------

DigitChar(d) ==
    CASE d = 0 -> "0" [] d = 1 -> "1" [] d = 2 -> "2" [] d = 3 -> "3"
      [] d = 4 -> "4" [] d = 5 -> "5" [] d = 6 -> "6" [] d = 7 -> "7"
      [] d = 8 -> "8" [] d = 9 -> "9"

RECURSIVE NatStr(_)
\* str(n) for n >= 0
NatStr(n) == IF n < 10 THEN <<DigitChar(n)>> ELSE NatStr(n \div 10) \o <<DigitChar(n % 10)>>

\* str(n)
IntStr(n) == IF n < 0 THEN <<"-">> \o NatStr(0 - n) ELSE NatStr(n)

RECURSIVE Join(_, _)
\* sep.join(items)
Join(sep, items) ==
    IF Len(items) = 0 THEN <<>>
    ELSE IF Len(items) = 1 THEN items[1]
    ELSE items[1] \o sep \o Join(sep, Tail(items))

\* ------------------------------------------------------------------------
\* CommandExecutor._apply_char_budget (executor.py)
\* ------------------------------------------------------------------------

truncation_msg ==
    <<NL, NL, "[", ".", ".", ".", "t", "r", "u", "n", "c", "a", "t", "e",
      "d", " ", "d", "u", "e", " ", "t", "o", " ", "c", "h", "a", "r",
      "a", "c", "t", "e", "r", " ", "l", "i", "m", "i", "t", ".", ".",
      ".", "]">>

\* content[:n], n possibly negative
Prefix(content, n) ==
    IF n >= 0 THEN Slice(content, 0, n) ELSE Slice(content, 0, Max(0, Len(content) + n))

\* the separators tried in order: paragraph, line, sentence, word
BreakSeps == <<(<<NL, NL>>), (<<NL>>), (<<".", " ">>), (<<" ">>)>>

\* last_sep > available * 0.7; the float product agrees with 7*available/10
\* for every available below 90, which holds for all contents modelled here
GoodBreak(last_sep, available) == 10 * last_sep > 7 * available

\* the for-loop over the separators: cut after the first separator whose
\* last occurrence retains more than 70% of the available budget
BreakCut(truncated, available) ==
    LET good == {i \in 1..Len(BreakSeps) :
                    GoodBreak(RFind(truncated, BreakSeps[i]), available)}
        i0   == CHOOSE i \in good : \A j \in good : i <= j
    IN  IF good = {} THEN truncated
        ELSE Slice(truncated, 0, RFind(truncated, BreakSeps[i0]) + Len(BreakSeps[i0]))

\* a budget that cuts at max_chars and then appends the marker, reserving
\* no room for it
_apply_char_budget_NoReserve(content, max_chars) ==
    IF Len(content) <= max_chars THEN content
    ELSE RStrip(Slice(content, 0, max_chars)) \o truncation_msg

\* a budget that leaves the whitespace at the cut in place
_apply_char_budget_NoTrim(content, max_chars) ==
    LET available == max_chars - Len(truncation_msg)
    IN  IF Len(content) <= max_chars THEN content
        ELSE IF available <= 0 THEN Prefix(content, max_chars)
        ELSE BreakCut(Slice(content, 0, available), available) \o truncation_msg

_apply_char_budget(content, max_chars) ==
    LET available == max_chars - Len(truncation_msg)
    IN  IF Len(content) <= max_chars THEN content
        ELSE IF available <= 0 THEN Prefix(content, max_chars)
        ELSE RStrip(BreakCut(Slice(content, 0, available), available)) \o truncation_msg

\* ------------------------------------------------------------------------
\* String order (sorted() compares strings by code point)
\* ------------------------------------------------------------------------

CodePoint ==
    " " :> 32 @@ "!" :> 33 @@ "\"" :> 34 @@ "#" :> 35 @@ "$" :> 36 @@
    "%" :> 37 @@ "&" :> 38 @@ "'" :> 39 @@ "(" :> 40 @@ ")" :> 41 @@
    "*" :> 42 @@ "+" :> 43 @@ "," :> 44 @@ "-" :> 45 @@ "." :> 46 @@
    "/" :> 47 @@ "0" :> 48 @@ "1" :> 49 @@ "2" :> 50 @@ "3" :> 51 @@
    "4" :> 52 @@ "5" :> 53 @@ "6" :> 54 @@ "7" :> 55 @@ "8" :> 56 @@
    "9" :> 57 @@ ":" :> 58 @@ ";" :> 59 @@ "<" :> 60 @@ "=" :> 61 @@
    ">" :> 62 @@ "?" :> 63 @@ "@" :> 64 @@ "A" :> 65 @@ "B" :> 66 @@
    "C" :> 67 @@ "D" :> 68 @@ "E" :> 69 @@ "F" :> 70 @@ "G" :> 71 @@
    "H" :> 72 @@ "I" :> 73 @@ "J" :> 74 @@ "K" :> 75 @@ "L" :> 76 @@
    "M" :> 77 @@ "N" :> 78 @@ "O" :> 79 @@ "P" :> 80 @@ "Q" :> 81 @@
    "R" :> 82 @@ "S" :> 83 @@ "T" :> 84 @@ "U" :> 85 @@ "V" :> 86 @@
    "W" :> 87 @@ "X" :> 88 @@ "Y" :> 89 @@ "Z" :> 90 @@ "[" :> 91 @@
    "\\" :> 92 @@ "]" :> 93 @@ "^" :> 94 @@ "_" :> 95 @@ BQ :> 96 @@
    "a" :> 97 @@ "b" :> 98 @@ "c" :> 99 @@ "d" :> 100 @@ "e" :> 101 @@
    "f" :> 102 @@ "g" :> 103 @@ "h" :> 104 @@ "i" :> 105 @@ "j" :> 106 @@
    "k" :> 107 @@ "l" :> 108 @@ "m" :> 109 @@ "n" :> 110 @@ "o" :> 111 @@
    "p" :> 112 @@ "q" :> 113 @@ "r" :> 114 @@ "s" :> 115 @@ "t" :> 116 @@
    "u" :> 117 @@ "v" :> 118 @@ "w" :> 119 @@ "x" :> 120 @@ "y" :> 121 @@
    "z" :> 122 @@ "{" :> 123 @@ "|" :> 124 @@ "}" :> 125 @@ "~" :> 126 @@
    NL :> 10 @@ "\t" :> 9 @@ "\r" :> 13

\* a < b for Python strings
StrLess(a, b) ==
    \E i \in 1..(Len(a) + 1) :
        /\ \A k \in 1..(i - 1) : k <= Len(b) /\ a[k] = b[k]
        /\ i <= Len(b)
        /\ (i = Len(a) + 1 \/ CodePoint[a[i]] < CodePoint[b[i]])

RECURSIVE Sorted(_)
\* sorted(items) for a list of strings
Sorted(items) ==
    IF Len(items) = 0 THEN <<>>
    ELSE LET i == CHOOSE k \in 1..Len(items) :
                      \A j \in 1..Len(items) : ~StrLess(items[j], items[k])
         IN  <<items[i]>> \o Sorted(SubSeq(items, 1, i - 1) \o SubSeq(items, i + 1, Len(items)))

\* ------------------------------------------------------------------------
\* CommandRegistry (registry.py)
\* ------------------------------------------------------------------------

\* Python None for an optional string (namespace); an empty string is
\* equally falsy at every place the source tests it
None == <<>>

\* the value of dict.get(key) for a missing key
NoCommand == [found |-> FALSE]

\* CommandRegistry._make_key
_make_key(name, namespace) ==
    IF Len(namespace) > 0 THEN namespace \o <<":">> \o name ELSE name

\* CommandRegistry.get_command over the dict cmds
get_command(cmds, name, namespace) ==
    LET key == _make_key(name, namespace)
    IN  IF key \in DOMAIN cmds THEN cmds[key] ELSE NoCommand

\* the display identifier built for one command in get_command_names
DisplayName(cmd) ==
    IF Len(cmd.namespace) > 0
    THEN cmd.name \o <<" ", "(">> \o cmd.scope \o <<":">> \o cmd.namespace \o <<")">>
    ELSE cmd.name \o <<" ", "(">> \o cmd.scope \o <<")">>

RECURSIVE SetToSeq(_)
\* the values of a dict as a list (some iteration order)
SetToSeq(S) ==
    IF S = {} THEN <<>>
    ELSE LET x == CHOOSE y \in S : TRUE IN <<x>> \o SetToSeq(S \ {x})

\* CommandRegistry.get_command_names over the dict cmds
get_command_names(cmds) ==
    LET keys == SetToSeq(DOMAIN cmds)
    IN  Sorted([i \in 1..Len(keys) |-> DisplayName(cmds[keys[i]])])

\* ------------------------------------------------------------------------
\* TemplateProcessor._execute_bash (template_processor.py)
\* ------------------------------------------------------------------------

\* TemplateProcessor.__init__ default, used by CommandExecutor.__init__
timeout == 30

ExitedPrefix ==
    <<"[", "C", "o", "m", "m", "a", "n", "d", " ", "e", "x", "i", "t",
      "e", "d", " ", "w", "i", "t", "h", " ", "c", "o", "d", "e", " ">>

TimedOutPrefix ==
    <<"[", "C", "o", "m", "m", "a", "n", "d", " ", "t", "i", "m", "e",
      "d", " ", "o", "u", "t", " ", "a", "f", "t", "e", "r", " ">>

SecondsSuffix ==
    <<" ", "s", "e", "c", "o", "n", "d", "s", "]">>

FailedPrefix ==
    <<"[", "C", "o", "m", "m", "a", "n", "d", " ", "f", "a", "i", "l",
      "e", "d", ":", " ">>

\* the text _execute_bash returns for one outcome of subprocess.run:
\*   completed (stdout, stderr, returncode), TimeoutExpired, other exception
_execute_bash(outcome) ==
    IF outcome.kind = "timeout"
    THEN TimedOutPrefix \o IntStr(timeout) \o SecondsSuffix
    ELSE IF outcome.kind = "failed"
    THEN FailedPrefix \o outcome.error \o <<"]">>
    ELSE LET merged == IF Len(outcome.stderr) > 0
                       THEN (IF Len(outcome.stdout) > 0
                             THEN outcome.stdout \o <<NL>> \o outcome.stderr
                             ELSE outcome.stderr)
                       ELSE outcome.stdout
             output == IF outcome.returncode # 0
                       THEN ExitedPrefix \o IntStr(outcome.returncode) \o <<"]", NL>> \o merged
                       ELSE merged
         IN  Strip(output)

\* ------------------------------------------------------------------------
\* Paths (pathlib) and TemplateProcessor._process_file_refs
\* ------------------------------------------------------------------------

RECURSIVE PathParts(_, _)
\* the components of a path from position p: split on "/", the empty
\* components and "." dropped as pathlib drops them
PathParts(path, p) ==
    LET a == RunEnd(path, p, {"/"})
        e == IF Find(path, <<"/">>, a) = -1 THEN Len(path) ELSE Find(path, <<"/">>, a)
        part == Slice(path, a, e)
    IN  IF a = Len(path) THEN <<>>
        ELSE IF part = <<".">> THEN PathParts(path, e)
        ELSE <<part>> \o PathParts(path, e)

RECURSIVE Normalize(_, _)
\* Path.resolve() on components: ".." removes the component before it and
\* is dropped at the root (no symbolic links in the modelled file system)
Normalize(parts, acc) ==
    IF Len(parts) = 0 THEN acc
    ELSE IF parts[1] = <<".", ".">>
    THEN Normalize(Tail(parts), IF Len(acc) = 0 THEN acc ELSE SubSeq(acc, 1, Len(acc) - 1))
    ELSE Normalize(Tail(parts), Append(acc, parts[1]))

\* str(path) of an absolute path given by its components
PathStr(parts) == <<"/">> \o Join(<<"/">>, parts)

\* working_dir / file_path_str: an absolute right operand replaces the left
PathJoin(dir, file_path_str) ==
    IF StartsWithAt(file_path_str, <<"/">>, 0) THEN file_path_str
    ELSE dir \o <<"/">> \o file_path_str

\* str((working_dir / file_path_str).resolve())
Resolved(dir, file_path_str) ==
    PathStr(Normalize(PathParts(PathJoin(dir, file_path_str), 0), <<>>))

\* the working directory of the executor and its template processor
working_dir == <<"/", "w">>

FenceOpen == <<BQ, BQ, BQ, NL, "#", " ">>

FenceClose == <<NL, BQ, BQ, BQ>>

\* a replacement that counts a file as soon as it exists, read or not
replace_file_ref_CountsAttempt(m, file) ==
    LET file_path_str == m.group1
        resolved == Resolved(working_dir, file_path_str)
        working_resolved == Resolved(working_dir, <<>>)
    IN  IF ~StartsWithAt(resolved, working_resolved, 0)
           /\ ~StartsWithAt(file_path_str, <<"/">>, 0)
        THEN [text |-> m.group0, count |-> 0, read |-> FALSE, why |-> "outside",
              warnings |-> <<(<<"File reference @">> \o file_path_str
                              \o <<" outside working directory">>)>>]
        ELSE IF ~file.exists
        THEN [text |-> m.group0, count |-> 0, read |-> FALSE, why |-> "missing",
              warnings |-> <<(<<"File not found: @">> \o file_path_str)>>]
        ELSE IF ~file.readable
        THEN [text |-> m.group0, count |-> 1, read |-> FALSE, why |-> "unreadable",
              warnings |-> <<(<<"Failed to read @">> \o file_path_str
                              \o <<": ">> \o file.error)>>]
        ELSE [text |-> FenceOpen \o file_path_str \o <<NL>> \o file.content \o FenceClose,
              count |-> 1, read |-> TRUE, why |-> "read", warnings |-> <<>>]

\* replace_file_ref(match) with the state file of the referenced path:
\* [exists, readable, content, error].  Returns the replacement text, the
\* count increment and the warnings added.
replace_file_ref(m, file) ==
    LET file_path_str == m.group1
        resolved == Resolved(working_dir, file_path_str)
        working_resolved == Resolved(working_dir, <<>>)
    IN  IF ~StartsWithAt(resolved, working_resolved, 0)
           /\ ~StartsWithAt(file_path_str, <<"/">>, 0)
        THEN [text |-> m.group0, count |-> 0, read |-> FALSE, why |-> "outside",
              warnings |-> <<(<<"File reference @">> \o file_path_str
                              \o <<" outside working directory">>)>>]
        ELSE IF ~file.exists
        THEN [text |-> m.group0, count |-> 0, read |-> FALSE, why |-> "missing",
              warnings |-> <<(<<"File not found: @">> \o file_path_str)>>]
        ELSE IF ~file.readable
        THEN [text |-> m.group0, count |-> 0, read |-> FALSE, why |-> "unreadable",
              warnings |-> <<(<<"Failed to read @">> \o file_path_str
                              \o <<": ">> \o file.error)>>]
        ELSE [text |-> FenceOpen \o file_path_str \o <<NL>> \o file.content \o FenceClose,
              count |-> 1, read |-> TRUE, why |-> "read", warnings |-> <<>>]

RECURSIVE FileRefSub(_, _, _, _, _)
\* FILE_REF_PATTERN.sub(replace_file_ref, template): the matches ms of the
\* template from index i on, the text before position p already emitted;
\* files[i] is the state of the file the i-th reference names
FileRefSub(t, ms, i, p, files) ==
    IF i > Len(ms)
    THEN [content |-> From(t, p), count |-> 0, warnings |-> <<>>, reads |-> <<>>,
          refs |-> <<>>]
    ELSE LET r    == replace_file_ref(ms[i], files[i])
             rest == FileRefSub(t, ms, i + 1, ms[i].end, files)
         IN  [content  |-> Slice(t, p, ms[i].start) \o r.text \o rest.content,
              count    |-> r.count + rest.count,
              warnings |-> r.warnings \o rest.warnings,
              reads    |-> (IF r.read THEN <<ms[i].group1>> ELSE <<>>) \o rest.reads,
              refs     |-> <<[path |-> ms[i].group1, why |-> r.why]>> \o rest.refs]

\* TemplateProcessor._process_file_refs(template)
_process_file_refs(template, files) ==
    FileRefSub(template, FileRefFindIter(template), 1, 0, files)

\* ------------------------------------------------------------------------
\* Command definitions (ParsedCommand with its CommandMetadata, parser.py)
\*   allowed_tools: the list of tool names, None as the empty list
\*   max_chars: the ceiling, None as 0 (both falsy at executor.py:181)
\* ------------------------------------------------------------------------

\* a command whose template is a single invocation of itself
CmdSelf ==
    [name |-> <<"s">>, namespace |-> None, scope |-> <<"p", "r", "o", "j", "e", "c", "t">>,
     allowed_tools |-> <<>>, max_chars |-> 0, found |-> TRUE,
     disable_model_invocation |-> FALSE,
     template |->
        <<"/", "s">>]

\* invokes itself and, on the next line, a leaf command
CmdTree ==
    [name |-> <<"t">>, namespace |-> None, scope |-> <<"p", "r", "o", "j", "e", "c", "t">>,
     allowed_tools |-> <<>>, max_chars |-> 0, found |-> TRUE,
     disable_model_invocation |-> FALSE,
     template |->
        <<"/", "t", " ", "x", NL, "/", "l", " ", "$", "1">>]

\* a leaf: plain text with one positional variable
CmdLeaf ==
    [name |-> <<"l">>, namespace |-> None, scope |-> <<"u", "s", "e", "r">>,
     allowed_tools |-> <<>>, max_chars |-> 0, found |-> TRUE,
     disable_model_invocation |-> FALSE,
     template |->
        <<"L", "$", "1">>]

\* mutual recursion through a namespaced command
CmdPing ==
    [name |-> <<"m">>, namespace |-> None, scope |-> <<"u", "s", "e", "r">>,
     allowed_tools |-> <<>>, max_chars |-> 0, found |-> TRUE,
     disable_model_invocation |-> FALSE,
     template |->
        <<"/", "n", ":", "c">>]

\* the namespaced partner of the cycle
CmdPong ==
    [name |-> <<"c">>, namespace |-> <<"n">>, scope |-> <<"u", "s", "e", "r">>,
     allowed_tools |-> <<>>, max_chars |-> 0, found |-> TRUE,
     disable_model_invocation |-> FALSE,
     template |->
        <<"x", " ", "/", "m">>]

\* two inline shell snippets, bash granted
CmdBash ==
    [name |-> <<"b">>, namespace |-> None, scope |-> <<"p", "r", "o", "j", "e", "c", "t">>,
     allowed_tools |-> <<"bash">>, max_chars |-> 0, found |-> TRUE,
     disable_model_invocation |-> FALSE,
     template |->
        <<"!", BQ, "d", BQ, " ", "!", BQ, "e", BQ>>]

\* a shell block and an inline snippet, bash granted
CmdBlock ==
    [name |-> <<"k">>, namespace |-> None, scope |-> <<"p", "r", "o", "j", "e", "c", "t">>,
     allowed_tools |-> <<"read", "bash">>, max_chars |-> 0, found |-> TRUE,
     disable_model_invocation |-> FALSE,
     template |->
        <<"!", BQ, BQ, BQ, NL, "d", NL, BQ, BQ, BQ, "!", BQ, "e", BQ>>]

\* shell markers, bash not among the granted tool names
CmdNoBash ==
    [name |-> <<"u">>, namespace |-> None, scope |-> <<"u", "s", "e", "r">>,
     allowed_tools |-> <<"read", "Bash">>, max_chars |-> 0, found |-> TRUE,
     disable_model_invocation |-> FALSE,
     template |->
        <<"!", BQ, "d", BQ, NL, "!", BQ, BQ, BQ, NL, "e", NL, BQ, BQ, BQ>>]

\* a shell marker holding a file reference, no tools, a small ceiling
CmdNoTools ==
    [name |-> <<"v">>, namespace |-> None, scope |-> <<"u", "s", "e", "r">>,
     allowed_tools |-> <<>>, max_chars |-> 3, found |-> TRUE,
     disable_model_invocation |-> FALSE,
     template |->
        <<"!", BQ, "c", "a", "t", " ", "@", "f", BQ>>]

\* a relative reference inside the working directory and an absolute one
CmdFiles ==
    [name |-> <<"f">>, namespace |-> None, scope |-> <<"p", "r", "o", "j", "e", "c", "t">>,
     allowed_tools |-> <<>>, max_chars |-> 0, found |-> TRUE,
     disable_model_invocation |-> FALSE,
     template |->
        <<"@", "f", " ", "@", "/", "e">>]

\* relative references that resolve outside the working directory
CmdOutside ==
    [name |-> <<"o">>, namespace |-> None, scope |-> <<"p", "r", "o", "j", "e", "c", "t">>,
     allowed_tools |-> <<"bash">>, max_chars |-> 0, found |-> TRUE,
     disable_model_invocation |-> FALSE,
     template |->
        <<"@", ".", ".", "/", "w", "2", "/", "y", " ", "@", ".", ".",
          "/", "x">>]

\* own shell snippet and file, then a nested command that runs shell snippets
CmdParent ==
    [name |-> <<"p">>, namespace |-> None, scope |-> <<"p", "r", "o", "j", "e", "c", "t">>,
     allowed_tools |-> <<"bash">>, max_chars |-> 0, found |-> TRUE,
     disable_model_invocation |-> FALSE,
     template |->
        <<"!", BQ, "d", BQ, " ", "@", "f", NL, "/", "b">>]

\* a long text under a ceiling above the truncation marker's length
CmdLong ==
    [name |-> <<"g">>, namespace |-> None, scope |-> <<"u", "s", "e", "r">>,
     allowed_tools |-> <<>>, max_chars |-> 54, found |-> TRUE,
     disable_model_invocation |-> FALSE,
     template |->
        <<"a", "a", "a", "a", " ", "b", "b", "b", "b", ".", " ", "c",
          "c", "c", "c", " ", "d", "d", "d", "d", NL, NL, "e", "e", "e",
          "e", " ", "f", "f", "f", "f", " ", "g", "g", "g", "g", " ",
          "h", "h", "h", "h", NL, "i", "i", "i", "i", " ", "j", "j", "j",
          "j", " ", "$", "A", "R", "G", "U", "M", "E", "N", "T", "S">>]

\* nests the long text, with its own ceiling
CmdLong2 ==
    [name |-> <<"h">>, namespace |-> None, scope |-> <<"u", "s", "e", "r">>,
     allowed_tools |-> <<>>, max_chars |-> 45, found |-> TRUE,
     disable_model_invocation |-> FALSE,
     template |->
        <<"/", "g", " ", "$", "1", " ", "k", "k", "k", "k">>]

\* a short text under a ceiling below the truncation marker's length
CmdShort ==
    [name |-> <<"j">>, namespace |-> None, scope |-> <<"u", "s", "e", "r">>,
     allowed_tools |-> <<>>, max_chars |-> 5, found |-> TRUE,
     disable_model_invocation |-> FALSE,
     template |->
        <<"a", "b", "c", " ", "$", "1">>]

AllCommands == {CmdSelf, CmdTree, CmdLeaf, CmdPing, CmdPong,
                CmdBash, CmdBlock, CmdNoBash, CmdNoTools, CmdFiles,
                CmdOutside, CmdParent, CmdLong, CmdLong2, CmdShort}

\* the registry dict holding the commands of the set cs, keyed by _make_key
StoreOf(cs) ==
    [key \in {_make_key(c.name, c.namespace) : c \in cs} |->
        CHOOSE c \in cs : _make_key(c.name, c.namespace) = key]

\* the stores a session can have loaded: everything, a store that lacks the
\* leaf and the shell commands other commands refer to, and an empty store
Stores ==
    {StoreOf(AllCommands), StoreOf(AllCommands \ {CmdLeaf, CmdBash, CmdPong}),
     StoreOf({CmdSelf, CmdLeaf}), StoreOf({})}

\* ------------------------------------------------------------------------
\* Environment: outcomes of subprocess.run and states of referenced files
\* ------------------------------------------------------------------------

\* what one subprocess.run can do: complete with output and an exit code,
\* raise TimeoutExpired, or raise another exception (launch failure)
ProcessOutcomes ==
    {[kind |-> "completed", stdout |-> <<"o", "k", NL>>, stderr |-> <<>>, returncode |-> 0],
     [kind |-> "completed", stdout |-> <<>>, stderr |-> <<"n", "o">>, returncode |-> 1],
     [kind |-> "timeout"],
     [kind |-> "failed", error |-> <<"x">>]}

\* what a referenced path can be: a readable file, a path that exists but
\* cannot be read, or a missing path
FileStates ==
    {[exists |-> TRUE, readable |-> TRUE, content |-> <<"D">>, error |-> <<>>],
     [exists |-> TRUE, readable |-> FALSE, content |-> <<>>, error |-> <<"E">>],
     [exists |-> FALSE, readable |-> FALSE, content |-> <<>>, error |-> <<>>]}

\* ------------------------------------------------------------------------
\* Bounds and inputs of the top-level calls
\* ------------------------------------------------------------------------

\* the most argument tokens a top-level call passes
MaxArgs == 2

ArgWords == <<(<<"q">>), (<<"r">>), (<<"p">>), (<<"z">>)>>

\* the argument strings of top-level calls: the first n words, n <= MaxArgs
ArgChoices == {Join(<<" ">>, SubSeq(ArgWords, 1, n)) : n \in 0..MaxArgs}

\* the command names a caller asks for: every defined name and an unknown one
NameChoices == {c.name : c \in AllCommands} \cup {<<"z", "z">>}

NamespaceChoices == {None, <<"n">>}

\* ------------------------------------------------------------------------
\* State
\* ------------------------------------------------------------------------

VARIABLES
    commands,   \* CommandRegistry.commands: key -> ParsedCommand
    stack,      \* the activations of execute_full, outermost first
    call,       \* the arguments of the current or last top-level execute_full
    out,        \* what that call returned or raised
    trace,      \* events of that call: bodies entered, calls rejected,
                \* tokens skipped, stages and compositions begun,
                \* processes run, files read, returns
    applied,    \* the last application of one of the pure functions: its
                \* name, its arguments and its value
    sched       \* the other task of the event loop (its call, parked while
                \* this one runs) and the position of a store reload

vars == <<commands, stack, call, out, trace, applied, sched>>

\* executor.py:16
MAX_COMPOSITION_DEPTH == 5

\* the last element of a non-empty sequence
Last(q) == q[Len(q)]

\* the sequence without its last element
Front(q) == SubSeq(q, 1, Len(q) - 1)

\* the matches taken in document order
Reversed_Forward(q) == q

RECURSIVE Reversed(_)
\* reversed(matches)
Reversed(q) == IF Len(q) = 0 THEN <<>> ELSE Append(Reversed(Tail(q)), q[1])

\* messages: a sequence holding the literal fragments of the f-string as
\* whole strings and the interpolated values character by character
DepthError ==
    <<"Maximum command composition depth (">> \o IntStr(MAX_COMPOSITION_DEPTH)
        \o <<") exceeded. ", "Check for circular command references.">>

\* a message that lists only the first five identifiers
NotFoundError_FirstFew(command_name, available) ==
    <<"Command '/">> \o command_name \o <<"' not found. ", "Available commands: ">>
        \o Join(<<", ">>, SubSeq(available, 1, Min(5, Len(available))))

NotFoundError(command_name, available) ==
    <<"Command '/">> \o command_name \o <<"' not found. ", "Available commands: ">>
        \o Join(<<", ">>, available)

BlockWarning ==
    <<"Template contains bash blocks but 'bash' not in allowed-tools. ",
      "Add 'allowed-tools: [bash]' to frontmatter to enable execution.">>

InlineWarning ==
    <<"Template contains inline bash (!", BQ, ") but 'bash' not in allowed-tools. ",
      "Add 'allowed-tools: [bash]' to frontmatter to enable execution.">>

FailedWarning(command_spec, e) ==
    <<"Failed to execute /">> \o command_spec \o <<": ">> \o e

\* a nested warning passed on without its prefix
NestedWarning_Bare(command_spec, w) == w

NestedWarning(command_spec, w) == <<"[/">> \o command_spec \o <<"] ">> \o w

TruncatedWarning(original_len, new_len, max_chars) ==
    <<"Content truncated from ">> \o IntStr(original_len) \o <<" to ">>
        \o IntStr(new_len) \o <<" chars ", "(max-chars: ">> \o IntStr(max_chars) \o <<")">>

\* shell execution allowed as soon as any tool is granted
bash_allowed_AnyTool(allowed_tools) == Len(allowed_tools) > 0

\* bash_allowed = allowed_tools and "bash" in allowed_tools
bash_allowed(allowed_tools) == \E i \in 1..Len(allowed_tools) : allowed_tools[i] = "bash"

\* a depth check that already refuses the deepest permitted call
DepthExceeded_Early(depth) == depth >= MAX_COMPOSITION_DEPTH

\* a depth check that lets one call too many through
DepthExceeded_Late(depth) == depth > MAX_COMPOSITION_DEPTH + 1

\* the depth check at the head of execute_full (executor.py:122)
DepthExceeded(depth) == depth > MAX_COMPOSITION_DEPTH

\* template processing and composition entered whatever process_advanced is
FirstStage_Always(process_advanced) == "process"

\* where execute_full goes after variable substitution: template processing
\* and composition only when process_advanced (executor.py:152, 165)
FirstStage(process_advanced) == IF process_advanced THEN "process" ELSE "finish"

\* the head of execute_full (executor.py:121-150): depth check, lookup,
\* variable substitution, initial locals.  Either raises or yields the new
\* activation, standing before template processing.
Enter(cmds, command_name, args, namespace, process_advanced, depth) ==
    LET command == get_command(cmds, command_name, namespace)
        substituted == substitute_variables(command.template, args)
    IN  IF DepthExceeded(depth)
        THEN [raised |-> TRUE, kind |-> "depth", error |-> DepthError]
        ELSE IF ~command.found
        THEN [raised |-> TRUE, kind |-> "lookup",
              error |-> NotFoundError(command_name, get_command_names(cmds))]
        ELSE [raised |-> FALSE,
              frame |-> [command_name |-> command_name, namespace |-> namespace,
                         args |-> args, process_advanced |-> process_advanced,
                         depth |-> depth, command |-> command,
                         pc |-> FirstStage(process_advanced),
                         template |-> substituted,
                         substituted |-> substituted, warnings |-> <<>>,
                         bash_count |-> 0, files_count |-> 0,
                         result |-> substituted, p_warnings |-> <<>>,
                         p_bash_count |-> 0, count |-> 0, matches |-> <<>>,
                         c_warnings |-> <<>>]]

\* one call served alone: no other task, no reload
Unscheduled ==
    [parked |-> [stack |-> <<>>,
                 call |-> [command_name |-> <<>>, args |-> <<>>,
                           namespace |-> None, process_advanced |-> TRUE],
                 out |-> [status |-> "none"], trace |-> <<>>],
     reload |-> [pc |-> "none"]]

Init ==
    /\ commands \in Stores
    /\ stack = <<>>
    /\ call = [command_name |-> <<>>, args |-> <<>>, namespace |-> None,
               process_advanced |-> TRUE]
    /\ out = [status |-> "idle"]
    /\ trace = <<>>
    /\ applied = [fn |-> "none"]
    /\ sched = Unscheduled

\* a caller invokes execute_full(command_name, args, namespace,
\* process_advanced) with _depth = 0 (executor.py:98-150).  A behaviour
\* follows one top-level call: the executor keeps nothing between calls.
ExecuteFullWith(command_name, args, namespace, process_advanced) ==
    LET e == Enter(commands, command_name, args, namespace, process_advanced, 0)
    IN  /\ call' = [command_name |-> command_name, args |-> args,
                    namespace |-> namespace, process_advanced |-> process_advanced]
        /\ IF e.raised
           THEN /\ out' = [status |-> "raised", kind |-> e.kind, error |-> e.error]
                /\ stack' = <<>>
                /\ trace' = <<>>
           ELSE /\ out' = [status |-> "running"]
                /\ stack' = <<e.frame>>
                /\ trace' = <<[ev |-> "enter", depth |-> 0]>>

ExecuteFull ==
    /\ out.status = "idle"
    /\ stack = <<>>
    /\ \E command_name \in NameChoices, args \in ArgChoices,
          namespace \in NamespaceChoices, process_advanced \in BOOLEAN :
         ExecuteFullWith(command_name, args, namespace, process_advanced)
    /\ UNCHANGED <<commands, applied, sched>>

\* the activation that is running: the innermost one
Top == Last(stack)

\* the stack with its innermost activation replaced by f
SetTop(f) == Append(Front(stack), f)

\* TemplateProcessor.process, shell-block stage entry
\* (template_processor.py:75-91): run the blocks when bash is granted,
\* warn when it is not, skip the stage when no block marker is present
ProcessBlocks ==
    /\ stack # <<>>
    /\ Top.pc = "process"
    /\ LET f  == Top
           ms == BashBlockFindIter(f.result)
       IN  stack' = SetTop(
             IF ms # <<>> /\ bash_allowed(f.command.allowed_tools)
             THEN [f EXCEPT !.pc = "bash_blocks", !.matches = ms, !.count = 0]
             ELSE IF ms # <<>>
             THEN [f EXCEPT !.pc = "inline", !.p_warnings = Append(@, BlockWarning)]
             ELSE [f EXCEPT !.pc = "inline"])
    /\ trace' = Append(trace, [ev |-> "stage", kind |-> "block", depth |-> Top.depth,
                               markers |-> Len(BashBlockFindIter(Top.result)),
                               text |-> Top.result])
    /\ UNCHANGED <<commands, call, out, applied, sched>>

\* a loop iteration that counts only the commands that succeeded
BashStep_CountSuccessOnly(f, o, next) ==
    LET m == Head(f.matches)
        succeeded == o.kind = "completed" /\ o.returncode = 0
        g == [f EXCEPT !.result = ReplaceFirst(f.result, m.group0, _execute_bash(o)),
                       !.count = IF succeeded THEN @ + 1 ELSE @,
                       !.matches = Tail(@)]
    IN  IF g.matches = <<>>
        THEN [g EXCEPT !.p_bash_count = @ + g.count, !.pc = next]
        ELSE g

\* one iteration of the loop of _process_bash_blocks or _process_bash_inline
\* (template_processor.py:121-134, 140-153) on activation f: run the
\* command of the next match with outcome o, replace the first occurrence
\* of the marker text in result, count it; after the last match add the
\* stage's count to bash_count and go on to the stage next
BashStep(f, o, next) ==
    LET m == Head(f.matches)
        replacement == _execute_bash(o)
        g == [f EXCEPT !.result = ReplaceFirst(f.result, m.group0, replacement),
                       !.count = @ + 1,
                       !.matches = Tail(@)]
    IN  IF g.matches = <<>>
        THEN [g EXCEPT !.p_bash_count = @ + g.count, !.pc = next]
        ELSE g

\* the event recorded for a process run by activation f with outcome o
RunEvent(f, o) ==
    [ev |-> "run", depth |-> f.depth, command |-> Strip(Head(f.matches).group1),
     marker |-> Head(f.matches).group0, outcome |-> o]

\* _process_bash_blocks: one shell block executed (await _execute_bash),
\* the process ending in one of the given outcomes
BashBlockWith(outcomes) ==
    /\ stack # <<>>
    /\ Top.pc = "bash_blocks"
    /\ \E o \in outcomes :
         /\ stack' = SetTop(BashStep(Top, o, "inline"))
         /\ trace' = Append(trace, RunEvent(Top, o))
    /\ UNCHANGED <<commands, call, out, applied, sched>>

BashBlock == BashBlockWith(ProcessOutcomes)

\* TemplateProcessor.process, inline-shell stage entry
\* (template_processor.py:93-102), on the text the block stage left
ProcessInline ==
    /\ stack # <<>>
    /\ Top.pc = "inline"
    /\ LET f  == Top
           ms == BashInlineFindIter(f.result)
       IN  stack' = SetTop(
             IF ms # <<>> /\ bash_allowed(f.command.allowed_tools)
             THEN [f EXCEPT !.pc = "bash_inline", !.matches = ms, !.count = 0]
             ELSE IF ms # <<>>
             THEN [f EXCEPT !.pc = "files", !.p_warnings = Append(@, InlineWarning)]
             ELSE [f EXCEPT !.pc = "files"])
    /\ trace' = Append(trace, [ev |-> "stage", kind |-> "inline", depth |-> Top.depth,
                               markers |-> Len(BashInlineFindIter(Top.result)),
                               text |-> Top.result])
    /\ UNCHANGED <<commands, call, out, applied, sched>>

\* _process_bash_inline: one inline snippet executed (await _execute_bash),
\* the process ending in one of the given outcomes
BashInlineWith(outcomes) ==
    /\ stack # <<>>
    /\ Top.pc = "bash_inline"
    /\ \E o \in outcomes :
         /\ stack' = SetTop(BashStep(Top, o, "files"))
         /\ trace' = Append(trace, RunEvent(Top, o))
    /\ UNCHANGED <<commands, call, out, applied, sched>>

BashInline == BashInlineWith(ProcessOutcomes)

\* the events recorded for the references of one file stage, in order: a
\* file read, or a reference left alone and why
ReadEvents(f, refs) ==
    [i \in 1..Len(refs) |->
        [ev |-> IF refs[i].why = "read" THEN "read" ELSE "miss", depth |-> f.depth,
         path |-> refs[i].path, why |-> refs[i].why]]

\* a file stage that puts its warnings before those of the shell stages
ProcessFiles_WarningsFirst ==
    /\ stack # <<>>
    /\ Top.pc = "files"
    /\ LET f  == Top
           ms == FileRefFindIter(f.result)
       IN  \E files \in [1..Len(ms) -> FileStates] :
             LET r == _process_file_refs(f.result, files)
             IN  /\ stack' = SetTop([f EXCEPT
                        !.pc = "composition",
                        !.result = r.content,
                        !.p_warnings = r.warnings \o @,
                        !.substituted = r.content,
                        !.bash_count = f.p_bash_count,
                        !.files_count = r.count,
                        !.warnings = @ \o r.warnings \o f.p_warnings])
                 /\ trace' = trace \o ReadEvents(f, r.refs)
    /\ UNCHANGED <<commands, call, out, applied, sched>>

\* TemplateProcessor.process, file-reference stage and return
\* (template_processor.py:104-115), and the executor taking over the
\* ProcessedTemplate (executor.py:158-162)
ProcessFiles ==
    /\ stack # <<>>
    /\ Top.pc = "files"
    /\ LET f  == Top
           ms == FileRefFindIter(f.result)
       IN  \E files \in [1..Len(ms) -> FileStates] :
             LET r == _process_file_refs(f.result, files)
             IN  /\ stack' = SetTop([f EXCEPT
                        !.pc = "composition",
                        !.result = r.content,
                        !.p_warnings = @ \o r.warnings,
                        !.substituted = r.content,
                        !.bash_count = f.p_bash_count,
                        !.files_count = r.count,
                        !.warnings = @ \o f.p_warnings \o r.warnings])
                 /\ trace' = trace \o ReadEvents(f, r.refs)
    /\ UNCHANGED <<commands, call, out, applied, sched>>

\* _process_composition entry (executor.py:165-168, 254-264): find the
\* nested invocations of the rendered text, to be handled last to first
Composition ==
    /\ stack # <<>>
    /\ Top.pc = "composition"
    /\ LET f  == Top
           ms == CommandFindIter(f.substituted)
       IN  stack' = SetTop(
             IF ms = <<>>
             THEN [f EXCEPT !.pc = "finish"]
             ELSE [f EXCEPT !.pc = "compose", !.matches = Reversed(ms),
                            !.result = f.substituted, !.c_warnings = <<>>])
    /\ trace' = Append(trace, [ev |-> "compose", depth |-> Top.depth,
                               tokens |-> Len(CommandFindIter(Top.substituted))])
    /\ UNCHANGED <<commands, call, out, applied, sched>>

\* a composition loop that ends after the first token it handles
NextMatch_Abort(f) ==
    [f EXCEPT !.matches = <<>>, !.pc = "finish", !.substituted = f.result,
              !.warnings = @ \o f.c_warnings]

\* the end of one loop iteration of _process_composition on activation f:
\* drop the match handled; after the last one return (result, warnings) to
\* execute_full, which extends its warnings (executor.py:166-170, 314)
NextMatch(f) ==
    LET g == [f EXCEPT !.matches = Tail(@)]
    IN  IF g.matches = <<>>
        THEN [g EXCEPT !.pc = "finish", !.substituted = g.result,
                       !.warnings = @ \o g.c_warnings]
        ELSE g

\* command_spec of a match split into (namespace, command_name)
\* (executor.py:266-274)
SpecNamespace(command_spec) ==
    IF Contains(command_spec, <<":">>)
    THEN Slice(command_spec, 0, Find(command_spec, <<":">>, 0))
    ELSE None

SpecName(command_spec) ==
    IF Contains(command_spec, <<":">>)
    THEN From(command_spec, Find(command_spec, <<":">>, 0) + 1)
    ELSE command_spec

\* except ValueError (executor.py:310-312) in activation f: the error of
\* the nested call becomes a warning, the token stays in place
CatchValueError(f, command_spec, error) ==
    [f EXCEPT !.c_warnings = Append(@, FailedWarning(command_spec, error))]

\* a composition loop that reports an unregistered token as a failure
ComposeStep_WarnUnknown ==
    /\ stack # <<>>
    /\ Top.pc = "compose"
    /\ LET f == Top
           m == Head(f.matches)
           command_spec == m.group1
           namespace == SpecNamespace(command_spec)
           command_name == SpecName(command_spec)
           cmd == get_command(commands, command_name, namespace)
           e == Enter(commands, command_name, Strip(m.group2), namespace, TRUE, f.depth + 1)
       IN  IF ~cmd.found \/ e.raised
           THEN /\ stack' = SetTop(NextMatch(CatchValueError(f, command_spec, e.error)))
                /\ trace' = Append(trace, [ev |-> "reject", depth |-> f.depth + 1])
           ELSE /\ stack' = Append(stack, e.frame)
                /\ trace' = Append(trace, [ev |-> "enter", depth |-> f.depth + 1])
    /\ UNCHANGED <<commands, call, out, applied, sched>>

\* one loop iteration of _process_composition up to the nested call
\* (executor.py:265-295, 310-312): an unregistered token is skipped; a
\* registered one is executed at depth + 1, and a ValueError raised by the
\* head of that execute_full becomes a warning, the token left in place
ComposeStep ==
    /\ stack # <<>>
    /\ Top.pc = "compose"
    /\ LET f == Top
           m == Head(f.matches)
           command_spec == m.group1
           namespace == SpecNamespace(command_spec)
           command_name == SpecName(command_spec)
           cmd == get_command(commands, command_name, namespace)
           e == Enter(commands, command_name, Strip(m.group2), namespace, TRUE, f.depth + 1)
       IN  IF ~cmd.found
           THEN /\ stack' = SetTop(NextMatch(f))
                /\ trace' = Append(trace, [ev |-> "skip", depth |-> f.depth + 1])
           ELSE IF e.raised
           THEN /\ stack' = SetTop(NextMatch(CatchValueError(f, command_spec, e.error)))
                /\ trace' = Append(trace, [ev |-> "reject", depth |-> f.depth + 1])
           ELSE /\ stack' = Append(stack, e.frame)
                /\ trace' = Append(trace, [ev |-> "enter", depth |-> f.depth + 1])
    /\ UNCHANGED <<commands, call, out, applied, sched>>

\* the tail of execute_full on activation f (executor.py:172-207): the
\* advisory tool check only logs; the character budget is applied when a
\* ceiling is set and exceeded; the ExecutionResult is built
ResultOf(f) ==
    LET max_chars == f.command.max_chars
        over == max_chars # 0 /\ Len(f.substituted) > max_chars
        prompt == IF over THEN _apply_char_budget(f.substituted, max_chars) ELSE f.substituted
    IN  [prompt |-> prompt,
         warnings |-> IF over
                      THEN Append(f.warnings,
                                  TruncatedWarning(Len(f.substituted), Len(prompt), max_chars))
                      ELSE f.warnings,
         bash_commands_executed |-> f.bash_count,
         files_included |-> f.files_count]

\* the top-level execute_full returns its ExecutionResult to the caller
ReturnTop ==
    /\ Len(stack) = 1
    /\ Top.pc = "finish"
    /\ out' = [status |-> "returned", result |-> ResultOf(Top)]
    /\ stack' = <<>>
    /\ trace' = Append(trace, [ev |-> "return", depth |-> 0])
    /\ UNCHANGED <<commands, call, applied, sched>>

\* a nested execute_full returns into the loop of _process_composition
\* (executor.py:297-308): the span of the match is replaced by the nested
\* prompt, the nested warnings are appended with the token as prefix
ReturnNested ==
    /\ Len(stack) > 1
    /\ Top.pc = "finish"
    /\ LET nested_result == ResultOf(Top)
           f == stack[Len(stack) - 1]
           m == Head(f.matches)
           g == [f EXCEPT
                   !.result = Slice(@, 0, m.start) \o nested_result.prompt \o From(@, m.end),
                   !.c_warnings = @ \o [i \in 1..Len(nested_result.warnings) |->
                                          NestedWarning(m.group1, nested_result.warnings[i])]]
       IN  stack' = Append(SubSeq(stack, 1, Len(stack) - 2), NextMatch(g))
    /\ trace' = Append(trace, [ev |-> "return", depth |-> Top.depth])
    /\ UNCHANGED <<commands, call, out, applied, sched>>

\* the steps of a call in progress
Step ==
    \/ ProcessBlocks
    \/ BashBlock
    \/ ProcessInline
    \/ BashInline
    \/ ProcessFiles
    \/ Composition
    \/ ComposeStep
    \/ ReturnTop
    \/ ReturnNested

Next == ExecuteFull \/ Step

Spec == Init /\ [][Next]_vars

\* a call in progress can always take its next step: every activation on
\* the stack stands before one of the steps above
StepEnabled == stack # <<>>

\* Weak fairness of Step, WF_vars(Step), written out by its definition
\*   []<>(~ENABLED <<Step>>_vars) \/ []<><<Step>>_vars
\* with ENABLED <<Step>>_vars stated as the state predicate it amounts to.
\* The event loop keeps running the coroutine of a call in progress, and
\* every shell command completes or times out (subprocess.run is given a
\* timeout), so a step that is possible is eventually taken.
Fairness == []<>(~StepEnabled) \/ []<><<Step>>_vars

LiveSpec == Spec /\ Fairness

\* ------------------------------------------------------------------------
\* Two calls on one event loop, and a reload of the store
\* ------------------------------------------------------------------------

\* the commands of the session: one that runs two shell commands, one that
\* invokes another
ConcCommands == {CmdBlock, CmdLong2, CmdLong}

\* the commands the two callers ask for
ConcNames == {CmdBlock.name, CmdLong2.name}

\* two execute calls have been handed to the event loop, none has started;
\* the store is loaded
ConcInit ==
    /\ commands = StoreOf(ConcCommands)
    /\ stack = <<>>
    /\ call = [command_name |-> <<>>, args |-> <<>>, namespace |-> None,
               process_advanced |-> TRUE]
    /\ out = [status |-> "idle"]
    /\ trace = <<>>
    /\ applied = [fn |-> "none"]
    /\ sched = [parked |-> [stack |-> <<>>, call |-> call,
                            out |-> [status |-> "idle"], trace |-> <<>>],
                reload |-> [pc |-> "idle", before |-> StoreOf(ConcCommands),
                            after |-> StoreOf(ConcCommands), pending |-> <<>>]]

\* the event loop starts the coroutine of a call
ConcExecute ==
    /\ out.status = "idle"
    /\ stack = <<>>
    /\ \E command_name \in ConcNames :
         ExecuteFullWith(command_name, <<>>, None, TRUE)
    /\ UNCHANGED <<commands, applied, sched>>

\* an event loop whose thread runs subprocess.run itself: the loop is
\* given up only by a task that holds nothing
Switch_Blocking ==
    /\ stack = <<>>
    /\ stack' = sched.parked.stack
    /\ call' = sched.parked.call
    /\ out' = sched.parked.out
    /\ trace' = sched.parked.trace
    /\ sched' = [sched EXCEPT !.parked = [stack |-> stack, call |-> call,
                                          out |-> out, trace |-> trace]]
    /\ UNCHANGED <<commands, applied>>

\* a processor that keeps the count of commands run in a field of its own:
\* the task resumed goes on from the count the suspended one has reached
Switch_SharedCount ==
    /\ IF stack = <<>> THEN TRUE
       ELSE Top.pc \in {"bash_blocks", "bash_inline"}
    /\ stack' = IF stack # <<>> /\ sched.parked.stack # <<>>
                THEN Append(Front(sched.parked.stack),
                            [Last(sched.parked.stack) EXCEPT
                               !.p_bash_count = Top.p_bash_count])
                ELSE sched.parked.stack
    /\ call' = sched.parked.call
    /\ out' = sched.parked.out
    /\ trace' = sched.parked.trace
    /\ sched' = [sched EXCEPT !.parked = [stack |-> stack, call |-> call,
                                          out |-> out, trace |-> trace]]
    /\ UNCHANGED <<commands, applied>>

\* the event loop turns to its other task.  A coroutine gives the loop up
\* only where it awaits loop.run_in_executor (template_processor.py:169):
\* subprocess.run is handed to a worker thread and the coroutine is
\* suspended until it finishes; a task not started or finished holds
\* nothing.  The suspended call is resumed by the next Switch, and takes
\* the outcome of its command in its next step.
Switch ==
    /\ IF stack = <<>> THEN TRUE
       ELSE Top.pc \in {"bash_blocks", "bash_inline"}
    /\ stack' = sched.parked.stack
    /\ call' = sched.parked.call
    /\ out' = sched.parked.out
    /\ trace' = sched.parked.trace
    /\ sched' = [sched EXCEPT !.parked = [stack |-> stack, call |-> call,
                                          out |-> out, trace |-> trace]]
    /\ UNCHANGED <<commands, applied>>

\* CommandRegistry.reload -> discover_and_load (registry.py:27-91), called
\* from a thread other than the loop's: the dict is cleared and refilled
\* in place, one command at a time.  The files have not changed: the
\* loader finds what it found before.
ReloadStep ==
    /\ LET r == sched.reload
       IN  IF r.pc = "idle"
           THEN /\ commands' = StoreOf({})
                /\ sched' = [sched EXCEPT !.reload =
                               [r EXCEPT !.pc = "fill",
                                         !.pending = SetToSeq(ConcCommands)]]
           ELSE /\ r.pc = "fill"
                /\ IF r.pending = <<>>
                   THEN /\ commands' = commands
                        /\ sched' = [sched EXCEPT !.reload.pc = "loaded"]
                   ELSE LET cmd == Head(r.pending)
                            key == _make_key(cmd.name, cmd.namespace)
                        IN  /\ commands' =
                                  [k \in DOMAIN commands \cup {key} |->
                                     IF k = key THEN cmd ELSE commands[k]]
                            /\ sched' = [sched EXCEPT !.reload.pending = Tail(@)]
    /\ UNCHANGED <<stack, call, out, trace, applied>>

ConcNext == ConcExecute \/ Step \/ Switch \/ ReloadStep

ConcSpec == ConcInit /\ [][ConcNext]_vars

\* ------------------------------------------------------------------------
\* The tool's execute operation, with shell output that looks like markers
\* ------------------------------------------------------------------------

\* a bare invocation on one line, plain text on the next
CmdLines ==
    [name |-> <<"w">>, namespace |-> None, scope |-> <<"p", "r", "o", "j", "e", "c", "t">>,
     allowed_tools |-> <<>>, max_chars |-> 0, found |-> TRUE,
     disable_model_invocation |-> FALSE,
     template |->
        <<"/", "l", NL, "x", " ", "y">>]

\* a command the model may not invoke (disable-model-invocation: true)
CmdHidden ==
    [name |-> <<"x">>, namespace |-> None, scope |-> <<"u", "s", "e", "r">>,
     allowed_tools |-> <<>>, max_chars |-> 0, found |-> TRUE,
     disable_model_invocation |-> TRUE,
     template |->
        <<"S", "$", "1">>]

\* a command the model may invoke, whose template invokes the hidden one
CmdCaller ==
    [name |-> <<"y">>, namespace |-> None, scope |-> <<"p", "r", "o", "j", "e", "c", "t">>,
     allowed_tools |-> <<>>, max_chars |-> 0, found |-> TRUE,
     disable_model_invocation |-> FALSE,
     template |->
        <<"/", "x", " ", "$", "1">>]

\* the command strings the model sends: with and without the leading
\* slash, a slash alone, and a name that is not registered
ToolNames ==
    {(<<"b">>), (<<"/", "k">>), (<<"w">>), (<<"x">>), (<<"/", "x">>), (<<"y">>),
     (<<"/">>), (<<"q">>)}

\* processes that succeed and print text in the syntax of the template
\* language: an inline shell marker, a file reference, plain text
EchoOutcomes ==
    {[kind |-> "completed", stdout |-> <<"!", BQ, "e", BQ, NL>>, stderr |-> <<>>,
      returncode |-> 0],
     [kind |-> "completed", stdout |-> <<"@", "f", NL>>, stderr |-> <<>>, returncode |-> 0],
     [kind |-> "completed", stdout |-> <<"o", "k", NL>>, stderr |-> <<>>, returncode |-> 0]}

\* the tool is mounted, the registry of its session loaded, no request
\* made yet
ToolInit ==
    /\ commands = StoreOf({CmdBash, CmdBlock, CmdLeaf, CmdLines, CmdHidden, CmdCaller})
    /\ stack = <<>>
    /\ call = [command_name |-> <<>>, args |-> <<>>, namespace |-> None,
               process_advanced |-> TRUE]
    /\ out = [status |-> "idle"]
    /\ trace = <<>>
    /\ applied = [fn |-> "none"]
    /\ sched = Unscheduled

\* SlashCommandTool._execute_command up to its await (tool.py:137-166):
\* the leading slashes are stripped; an empty name and a command that
\* disables model invocation are refused with a failure result; any other
\* request goes to execute_full(command, args)
_execute_command ==
    /\ out.status = "idle"
    /\ stack = <<>>
    /\ \E input_command \in ToolNames, args \in ArgChoices :
         LET command == From(input_command,
                             RunEnd(input_command, 0, {"/"}))
             cmd == get_command(commands, command, None)
         IN  IF command = <<>>
             THEN /\ out' = [status |-> "refused", command |-> command,
                             message |-> <<"No command specified. Use operation='list' to see available commands.">>]
                  /\ UNCHANGED <<stack, call, trace>>
             ELSE IF cmd.found /\ cmd.disable_model_invocation
             THEN /\ out' = [status |-> "refused", command |-> command,
                             message |-> <<"Command '">> \o command
                                         \o <<"' does not allow model invocation">>]
                  /\ UNCHANGED <<stack, call, trace>>
             ELSE ExecuteFullWith(command, args, None, TRUE)
    /\ UNCHANGED <<commands, applied, sched>>

\* the ToolResult _execute_command builds from what execute_full did
\* (tool.py:139-186): success with the prompt and the counts, or failure
\* with the message of the error
ToolResult ==
    IF out.status = "returned"
    THEN [success |-> TRUE, prompt |-> out.result.prompt,
          bash_commands_executed |-> out.result.bash_commands_executed,
          files_included |-> out.result.files_included]
    ELSE IF out.status = "raised"
    THEN [success |-> FALSE, message |-> out.error]
    ELSE IF out.status = "refused"
    THEN [success |-> FALSE, message |-> out.message]
    ELSE [success |-> FALSE, message |-> <<>>]

ToolNext ==
    \/ _execute_command
    \/ ProcessBlocks
    \/ BashBlockWith(EchoOutcomes)
    \/ ProcessInline
    \/ BashInlineWith(EchoOutcomes)
    \/ ProcessFiles
    \/ Composition
    \/ ComposeStep
    \/ ReturnTop
    \/ ReturnNested

ToolSpec == ToolInit /\ [][ToolNext]_vars

\* ------------------------------------------------------------------------
\* The pure functions applied to enumerated arguments
\* ------------------------------------------------------------------------

\* templates are built of at most MaxPieces pieces
MaxPieces == 2

\* bare variables, in and out of range, and plain text
BarePieces ==
    {<<"$", "1">>, <<"$", "2">>, <<"$", "3">>, <<"$", "0">>, <<"$", "0", "2">>,
     <<"$", "A", "R", "G", "U", "M", "E", "N", "T", "S">>,
     <<"x">>, <<" ">>}

\* fallback forms: {{$N or "d"}}, {{$ARGUMENTS or "d"}}, a default that is
\* itself a variable, an empty default
FallbackPieces ==
    {<<"{", "{", "$", "1", " ", "o", "r", " ", "\"", "d", "\"", "}", "}">>,
     <<"{", "{", "$", "3", " ", "o", "r", " ", "\"", "d", "\"", "}", "}">>,
     <<"{", "{", "$", "0", " ", "o", "r", " ", "\"", "d", "\"", "}", "}">>,
     <<"{", "{", "$", "A", "R", "G", "U", "M", "E", "N", "T", "S", " ",
        "o", "r", " ", "\"", "d", "\"", "}", "}">>,
     <<"{", "{", "$", "2", " ", " ", "o", "r", " ", " ", "\"", "$", "1",
        "\"", "}", "}">>,
     <<"{", "{", "$", "1", " ", "o", "r", " ", "\"", "\"", "}", "}">>}

RECURSIVE Concat(_)
\* the concatenation of a sequence of texts
Concat(q) == IF Len(q) = 0 THEN <<>> ELSE Head(q) \o Concat(Tail(q))

\* the piece sequences templates are built of
PieceSeqs == UNION {[1..n -> BarePieces \cup FallbackPieces] : n \in 0..MaxPieces}

\* the argument strings given to substitute_variables
SubArgs ==
    {<<>>, <<"a">>, <<"a", " ", "b">>, <<" ", "a", " ", " ", "b", " ">>,
     <<"$", "2", " ", "b">>}

PureInit ==
    /\ commands = StoreOf({})
    /\ stack = <<>>
    /\ call = [command_name |-> <<>>, args |-> <<>>, namespace |-> None,
               process_advanced |-> TRUE]
    /\ out = [status |-> "idle"]
    /\ trace = <<>>
    /\ applied = [fn |-> "none"]
    /\ sched = Unscheduled

\* CommandParser.substitute_variables(template, args) (parser.py:142-200);
\* a behaviour follows one application
Substitute ==
    /\ applied.fn = "none"
    /\ \E pieces \in PieceSeqs, args \in SubArgs :
         applied' = [fn |-> "substitute_variables", pieces |-> pieces,
                     template |-> Concat(pieces), args |-> args,
                     value |-> substitute_variables(Concat(pieces), args)]
    /\ UNCHANGED <<commands, stack, call, out, trace, sched>>

\* permission lists hold at most MaxPerms permissions
MaxPerms == 2

\* str.lower() on the tool names used
Lower(tool) == IF tool = "Bash" THEN "bash" ELSE tool

\* t.rstrip(chars): every trailing character of the set is removed
RStripChars(t, chars) ==
    LET keep == {i \in 0..Len(t) : \A k \in (i + 1)..Len(t) : t[k] \in chars}
    IN  Slice(t, 0, CHOOSE i \in keep : \A j \in keep : i <= j)

\* pattern.rstrip(":*").rstrip("*").rstrip(":") (permissions.py:45)
pattern_base(pattern) ==
    RStripChars(RStripChars(RStripChars(pattern, {":", "*"}), {"*"}), {":"})

\* a permission without a pattern taken to allow nothing
allows_command_NeedsPattern(perm, command) ==
    /\ Lower(perm.tool) = "bash"
    /\ perm.pattern # None
    /\ StartsWithAt(Strip(command), pattern_base(perm.pattern), 0)

\* GranularPermission.allows_command (permissions.py:25-48); a permission
\* is [tool, pattern], pattern None when there is none (an empty pattern
\* answers as None does: every text starts with the empty prefix)
allows_command(perm, command) ==
    IF Lower(perm.tool) # "bash" THEN FALSE
    ELSE IF perm.pattern = None THEN TRUE
    ELSE StartsWithAt(Strip(command), pattern_base(perm.pattern), 0)

\* is_bash_command_allowed asking the first bash permission only
is_bash_command_allowed_FirstOnly(command, permissions) ==
    LET bash_permissions == SelectSeq(permissions, LAMBDA p : p.tool = "bash")
    IN  IF Len(bash_permissions) = 0
        THEN [allowed |-> FALSE, reason |-> <<"bash not in allowed-tools">>]
        ELSE IF allows_command(bash_permissions[1], command)
        THEN [allowed |-> TRUE, reason |-> None]
        ELSE [allowed |-> FALSE, reason |-> <<"No matching permission found">>]

\* is_bash_command_allowed (permissions.py:113-145): [allowed, reason],
\* reason None or a message
is_bash_command_allowed(command, permissions) ==
    LET bash_permissions == SelectSeq(permissions, LAMBDA p : p.tool = "bash")
        allowed_patterns ==
            SelectSeq(bash_permissions, LAMBDA p : p.pattern # None)
        quoted == [i \in 1..Len(allowed_patterns) |->
                     <<"'">> \o allowed_patterns[i].pattern \o <<"'">>]
    IN  IF Len(bash_permissions) = 0
        THEN [allowed |-> FALSE, reason |-> <<"bash not in allowed-tools">>]
        ELSE IF \E i \in 1..Len(bash_permissions) :
                  allows_command(bash_permissions[i], command)
        THEN [allowed |-> TRUE, reason |-> None]
        ELSE IF Len(allowed_patterns) > 0
        THEN [allowed |-> FALSE,
              reason |-> <<"Command does not match allowed patterns: ">>
                         \o Join(<<",", " ">>, quoted)]
        ELSE [allowed |-> FALSE, reason |-> <<"No matching permission found">>]

\* permissions: bash with and without a pattern, patterns ending in one
\* suffix and in several suffix characters, a prefix ending in a space, a
\* tool name in capitals, another tool
PermChoices ==
    {[tool |-> "bash", pattern |-> None],
     [tool |-> "bash", pattern |-> <<"g", "i", "t", " ", "a", "d", "d", ":",
                                "*">>],
     [tool |-> "bash", pattern |-> <<"l", "s", "*">>],
     [tool |-> "bash", pattern |-> <<"e", "c", "h", "o", " ", ":", ":", "*">>],
     [tool |-> "bash", pattern |-> <<"g", "i", "t", " ", ":", "*">>],
     [tool |-> "Bash", pattern |-> None],
     [tool |-> "Bash", pattern |-> <<"l", "s", "*">>],
     [tool |-> "edit", pattern |-> None],
     [tool |-> "edit", pattern |-> <<"g", "i", "t", " ", "a", "d", "d", ":",
                                "*">>]}

\* shell commands: matching and not, with leading and trailing whitespace
ShellCommands ==
    {<<"g", "i", "t", " ", "a", "d", "d", " ", ".">>,
     <<" ", " ", "g", "i", "t", " ", "a", "d", "d", " ", "x">>,
     <<"g", "i", "t", " ", "s", "t", "a", "t", "u", "s">>,
     <<"g", "i", "t", " ">>,
     <<"l", "s", " ", "-", "l", "a">>,
     <<"e", "c", "h", "o", " ", "x">>,
     <<"e", "c", "h", "o", " ", ":", "x">>,
     <<"r", "m">>}

\* the permission lists given to is_bash_command_allowed
PermLists == UNION {[1..n -> PermChoices] : n \in 0..MaxPerms}

\* one application of GranularPermission.allows_command
AllowsCommand ==
    /\ applied.fn = "none"
    /\ \E perm \in PermChoices, command \in ShellCommands :
         applied' = [fn |-> "allows_command", perm |-> perm,
                     command |-> command,
                     value |-> allows_command(perm, command)]
    /\ UNCHANGED <<commands, stack, call, out, trace, sched>>

\* one application of is_bash_command_allowed
IsBashCommandAllowed ==
    /\ applied.fn = "none"
    /\ \E permissions \in PermLists, command \in ShellCommands :
         applied' = [fn |-> "is_bash_command_allowed",
                     permissions |-> permissions, command |-> command,
                     value |-> is_bash_command_allowed(command, permissions)]
    /\ UNCHANGED <<commands, stack, call, out, trace, sched>>

\* a command file <name>.md found under the commands directory of one scope
\* (command_loader.py:111-116): name from the file name, namespace from
\* the subdirectory, the scope attached; its text tells the scope
FileCommand(name, namespace, scope) ==
    [CmdLeaf EXCEPT !.name = name, !.namespace = namespace,
                    !.scope = scope, !.template = scope]

\* what _load_from_directory can return for one scope: the files of a
\* directory tree in any iteration order, no file twice; a directory
\* that does not exist lists nothing
Listings(scope) ==
    LET files == {FileCommand(<<"a">>, None, scope), FileCommand(<<"b">>, None, scope),
                  FileCommand(<<"a">>, <<"n">>, scope)}
    IN  {q \in UNION {[1..n -> files] : n \in 0..Cardinality(files)} :
            \A i, j \in 1..Len(q) : i # j => q[i] # q[j]}

\* a discovery that takes every user command, overridden or not
KeepUnseen_All(cmds, seen) == cmds

RECURSIVE KeepUnseen(_, _)
\* the loop over user_commands (command_loader.py:73-82): a command whose
\* (name, namespace) has been seen is skipped
KeepUnseen(cmds, seen) ==
    IF cmds = <<>> THEN <<>>
    ELSE LET key == <<Head(cmds).name, Head(cmds).namespace>>
         IN  IF key \in seen THEN KeepUnseen(Tail(cmds), seen)
             ELSE <<Head(cmds)>> \o KeepUnseen(Tail(cmds), seen \cup {key})

\* CommandLoader.discover_commands (command_loader.py:22-89) on the
\* listings of the two directories
discover_commands(project_commands, user_commands) ==
    project_commands
        \o KeepUnseen(user_commands,
                      {<<project_commands[i].name, project_commands[i].namespace>> :
                          i \in 1..Len(project_commands)})

RECURSIVE StoreAll(_, _)
\* self.commands[key] = cmd for each command of the list (registry.py:56-59)
StoreAll(cmds, list) ==
    IF list = <<>> THEN cmds
    ELSE LET key == _make_key(Head(list).name, Head(list).namespace)
         IN  StoreAll([k \in DOMAIN cmds \cup {key} |->
                         IF k = key THEN Head(list) ELSE cmds[k]],
                      Tail(list))

\* CommandRegistry.discover_and_load(project_dir, user_dir) without git
\* URLs (registry.py:27-70): the dict is cleared and filled with what the
\* loader discovered; the number of entries is returned
DiscoverAndLoad ==
    /\ applied.fn = "none"
    /\ \E project_commands \in Listings(<<"p", "r", "o", "j", "e", "c", "t">>),
          user_commands \in Listings(<<"u", "s", "e", "r">>) :
         LET found_commands == discover_commands(project_commands, user_commands)
             loaded == StoreAll(StoreOf({}), found_commands)
         IN  /\ commands' = loaded
             /\ applied' = [fn |-> "discover_and_load",
                            project_commands |-> project_commands,
                            user_commands |-> user_commands,
                            discovered |-> found_commands,
                            value |-> Cardinality(DOMAIN loaded)]
    /\ UNCHANGED <<stack, call, out, trace, sched>>

PureNext == Substitute \/ AllowsCommand \/ IsBashCommandAllowed \/ DiscoverAndLoad

PureSpec == PureInit /\ [][PureNext]_vars

\* ------------------------------------------------------------------------
\* Observations on the events of a call
\* ------------------------------------------------------------------------

\* the top-level call has returned its ExecutionResult
Done == out.status = "returned"

\* the positions of the events of one kind
EventsOf(kind) == {i \in 1..Len(trace) : trace[i].ev = kind}

\* how many events of one kind happened for a call at depth d
CountAt(kind, d) == Cardinality({i \in EventsOf(kind) : trace[i].depth = d})

\* the depths at which a command body was rendered
EnteredDepths == {trace[i].depth : i \in EventsOf("enter")}

RECURSIVE TokensFound(_, _)
\* the invocation tokens found, among the first n events, in the texts
\* rendered at depth d
TokensFound(n, d) ==
    IF n = 0 THEN 0
    ELSE TokensFound(n - 1, d)
         + (IF trace[n].ev = "compose" /\ trace[n].depth = d THEN trace[n].tokens ELSE 0)

\* the command the top-level call names
CalledCommand == get_command(commands, call.command_name, call.namespace)

\* the template of c is a single invocation of c itself
IsSelfInvocation(c) == c.found /\ c.namespace = None /\ c.template = <<"/">> \o c.name

\* the message reports that the maximum composition depth was exceeded
MentionsDepth(w) == Contains(w, <<"Maximum command composition depth (", "5", ") exceeded. ">>)

\* how many of the warnings report a depth overflow
DepthWarnings(warnings) == Cardinality({i \in 1..Len(warnings) : MentionsDepth(warnings[i])})

\* ------------------------------------------------------------------------
\* C1
\* ------------------------------------------------------------------------

\* C1: when the store holds a command whose template is a single invocation
\* of itself (no character ceiling), a top-level execute_full of it with
\* template processing enabled returns normally; its body was rendered
\* exactly once at each of the depths 0..5, exactly one call was rejected
\* and that at depth 6, the returned prompt contains the self-invocation
\* token, and exactly one returned warning reports the depth overflow.
C1_SelfInvocationStopsAtDepth5 ==
    (out.status \in {"returned", "raised"}
       /\ IsSelfInvocation(CalledCommand) /\ call.process_advanced)
    => /\ Done
       /\ EnteredDepths = 0..5
       /\ \A d \in 0..5 : CountAt("enter", d) = 1
       /\ Cardinality(EventsOf("reject")) = 1
       /\ CountAt("reject", 6) = 1
       /\ Contains(out.result.prompt, <<"/">> \o CalledCommand.name)
       /\ DepthWarnings(out.result.warnings) = 1

\* a self-invoking command was executed to completion and its sixth nested
\* call was rejected
C1_Witness ==
    /\ Done
    /\ IsSelfInvocation(CalledCommand) /\ call.process_advanced
    /\ CountAt("reject", 6) = 1
    /\ out.result.prompt = <<"/">> \o CalledCommand.name

\* ------------------------------------------------------------------------
\* C2
\* ------------------------------------------------------------------------

\* no depth overflow reaches the caller; calls are rejected only at depth
\* 6; when the call has returned, every token found in a text rendered at
\* depth d was handled at depth d + 1 (expanded, rejected for depth, or
\* skipped because unregistered), every body entered has returned, and
\* the result carries one depth warning for each rejected call
OverflowContained ==
    /\ out.status = "raised" => out.kind # "depth"
    /\ \A i \in EventsOf("reject") : trace[i].depth = 6
    /\ Done =>
         /\ \A d \in 0..6 :
              TokensFound(Len(trace), d)
                = CountAt("enter", d + 1) + CountAt("reject", d + 1) + CountAt("skip", d + 1)
         /\ Cardinality(EventsOf("enter")) = Cardinality(EventsOf("return"))
         /\ DepthWarnings(out.result.warnings) = Cardinality(EventsOf("reject"))

\* the step that rejects a too-deep call: it stays in the activation that
\* issued the call, leaves its text (hence the token) as it was, and adds
\* one warning reporting the overflow
RejectKeepsToken ==
    (Len(trace') = Len(trace) + 1 /\ trace'[Len(trace')].ev = "reject")
    => LET f == stack[Len(stack)]
           g == stack'[Len(stack)]
           m == f.matches[1]
       IN  /\ Len(stack') = Len(stack)
           /\ out' = out
           /\ g.result = f.result
           /\ Slice(g.result, m.start, m.end) = <<"/">> \o m.group1
                \o Slice(f.result, m.start + 1 + Len(m.group1), m.end)
           /\ Len(g.warnings) + (IF g.pc = "finish" THEN 0 ELSE Len(g.c_warnings))
                = Len(f.warnings) + Len(f.c_warnings) + 1
           /\ MentionsDepth(g.c_warnings[Len(g.c_warnings)])

DepthBounded ==
    /\ \A i \in 1..Len(stack) : stack[i].depth <= 5
    /\ \A i \in EventsOf("enter") : trace[i].depth <= 5

\* C3: whatever the store (cyclic references included) and the call, a
\* top-level execute_full that has started eventually completes, with a
\* result or a lookup error, given that every shell command completes or
\* times out; and no execute_full body is ever entered at a depth above 5.
C3_TerminatesWithinDepth ==
    /\ []DepthBounded
    /\ [](out.status = "raised" => out.kind = "lookup")
    /\ (out.status = "running") ~> Done

\* a call on mutually recursive commands went down to depth 5 and returned
C3_Witness ==
    /\ Done
    /\ call.command_name = <<"m">>
    /\ 5 \in EnteredDepths
    /\ Cardinality(EventsOf("enter")) = 6

\* ------------------------------------------------------------------------
\* C4
\* ------------------------------------------------------------------------

\* C4: the bash-execution count and the file-inclusion count of the
\* ExecutionResult of a top-level execute_full equal the number of shell
\* snippets executed and of files included over the whole composition
\* tree: the top-level template and every nested command expanded.
C4_CountersCoverTree ==
    Done => /\ out.result.bash_commands_executed = Cardinality(EventsOf("run"))
            /\ out.result.files_included = Cardinality(EventsOf("read"))

\* ------------------------------------------------------------------------
\* C5
\* ------------------------------------------------------------------------

\* the variable-substituted template of the top-level call
RawPrompt == substitute_variables(CalledCommand.template, call.args)

\* the call did nothing but enter and leave the top-level body, and both
\* counters of its result are 0
NothingProcessed ==
    /\ trace = <<[ev |-> "enter", depth |-> 0], [ev |-> "return", depth |-> 0]>>
    /\ out.result.bash_commands_executed = 0
    /\ out.result.files_included = 0

\* C5 as stated: with process_advanced = false the prompt returned is
\* exactly substitute_variables(template, args); nothing is executed,
\* included or expanded and both counters are 0.
C5_ExactlyRaw ==
    (Done /\ ~call.process_advanced)
    => /\ out.result.prompt = RawPrompt
       /\ NothingProcessed

\* C5 amended: with process_advanced = false nothing is executed, included
\* or expanded and both counters are 0; the prompt returned is exactly
\* substitute_variables(template, args) when the command has no max_chars
\* ceiling or that text fits it; otherwise the character budget still
\* applies: the prompt is at most max_chars long, is a prefix of that text
\* optionally followed by the truncation marker, and one warning is given.
C5_RawWithinBudget ==
    (Done /\ ~call.process_advanced)
    => LET max_chars == CalledCommand.max_chars
           prompt == out.result.prompt
       IN  /\ NothingProcessed
           /\ IF max_chars = 0 \/ Len(RawPrompt) <= max_chars
              THEN prompt = RawPrompt /\ out.result.warnings = <<>>
              ELSE /\ Len(prompt) <= max_chars
                   /\ prompt = _apply_char_budget(RawPrompt, max_chars)
                   /\ \E n \in 0..Len(prompt) :
                        /\ Slice(prompt, 0, n) = Slice(RawPrompt, 0, n)
                        /\ n = Len(prompt) \/ From(prompt, n) = truncation_msg
                   /\ Len(out.result.warnings) = 1

\* a call with process_advanced = false returned a prompt cut by the budget
C5_Witness ==
    /\ Done
    /\ ~call.process_advanced
    /\ CalledCommand.max_chars > 0
    /\ Len(out.result.prompt) < Len(RawPrompt)
    /\ Contains(out.result.prompt, truncation_msg)

\* ------------------------------------------------------------------------
\* C6
\* ------------------------------------------------------------------------

\* the warning states that content of length original_len was cut to new_len
StatesLengths(w, original_len, new_len) ==
    Contains(w, <<"Content truncated from ">> \o IntStr(original_len) \o <<" to ">>
                  \o IntStr(new_len) \o <<" chars ">>)

\* the step in which an activation of execute_full returns: with content
\* the text rendered and prompt the text handed back (to the caller, or
\* into the span of the token in the invoking text), content longer than
\* a positive ceiling gives a prompt at most max_chars long and one more
\* warning, the last, stating both lengths; otherwise the prompt is the
\* content and no warning is added
BudgetOnReturn ==
    /\ (Len(stack) = 1 /\ stack' = <<>>)
       => LET f == stack[1]
              max_chars == f.command.max_chars
              r == out'.result
          IN  IF max_chars > 0 /\ Len(f.substituted) > max_chars
              THEN /\ Len(r.prompt) <= max_chars
                   /\ Front(r.warnings) = f.warnings
                   /\ StatesLengths(Last(r.warnings), Len(f.substituted), Len(r.prompt))
              ELSE /\ r.prompt = f.substituted
                   /\ r.warnings = f.warnings
    /\ (Len(stack) > 1 /\ Len(stack') = Len(stack) - 1)
       => LET f == stack[Len(stack)]
              max_chars == f.command.max_chars
              before == stack[Len(stack) - 1]
              after == stack'[Len(stack')]
              m == before.matches[1]
              prompt_len == Len(after.result) - Len(before.result) + (m.end - m.start)
              added == Len(after.warnings) + (IF after.pc = "finish" THEN 0 ELSE Len(after.c_warnings))
                        - Len(before.warnings) - Len(before.c_warnings)
          IN  IF max_chars > 0 /\ Len(f.substituted) > max_chars
              THEN /\ prompt_len <= max_chars
                   /\ added = Len(f.warnings) + 1
                   /\ StatesLengths(Last(after.c_warnings), Len(f.substituted), prompt_len)
              ELSE /\ Slice(after.result, m.start, m.start + prompt_len) = f.substituted
                   /\ added = Len(f.warnings)

\* C6: for every command with a positive max_chars ceiling and rendered
\* content longer than it, the prompt execute_full returns is at most
\* max_chars long and a warning stating the original and the new length is
\* appended to the warnings; content no longer than the ceiling is returned
\* unchanged with no such warning.
C6_BudgetBoundsPrompt == [][BudgetOnReturn]_vars

\* a fully processed call returned a prompt cut to its ceiling, ending in
\* the truncation marker, with the warning stating both lengths
C6_Witness ==
    /\ Done
    /\ call.process_advanced
    /\ CalledCommand.max_chars > Len(truncation_msg)
    /\ Len(out.result.prompt) <= CalledCommand.max_chars
    /\ Contains(out.result.prompt, truncation_msg)
    /\ Len(out.result.warnings) > 0
    /\ \E n \in 1..80 : StatesLengths(Last(out.result.warnings), n, Len(out.result.prompt))

\* ------------------------------------------------------------------------
\* C7
\* ------------------------------------------------------------------------

\* the identifier under which the store lists command c
IdentifierOf(c) ==
    c.name \o <<" ", "(">> \o c.scope
        \o (IF c.namespace = None THEN <<>> ELSE <<":">> \o c.namespace) \o <<")">>

\* C7: a top-level execute_full for a (name, namespace) the store does not
\* contain fails, and only then does a top-level call fail; the error
\* message names the command asked for and carries every identifier
\* get_command_names returns, one for each command of the store; no
\* activation was created and nothing was executed, included or expanded.
C7_LookupFailureListsCommands ==
    /\ (out.status # "idle" /\ ~CalledCommand.found)
       => /\ out.status = "raised"
          /\ Contains(out.error, <<"Command '/">> \o call.command_name \o <<"' not found. ">>)
          /\ \A i \in 1..Len(get_command_names(commands)) :
               Contains(out.error, get_command_names(commands)[i])
          /\ \A k \in DOMAIN commands : Contains(out.error, IdentifierOf(commands[k]))
          /\ stack = <<>>
          /\ trace = <<>>
    /\ out.status = "raised" => ~CalledCommand.found

\* a call for a name that exists only without the namespace asked for
\* failed, in a store of ten commands or more, one of them namespaced
C7_Witness ==
    /\ out.status = "raised"
    /\ call.namespace # None
    /\ get_command(commands, call.command_name, None).found
    /\ Cardinality(DOMAIN commands) >= 10
    /\ \E k \in DOMAIN commands : commands[k].namespace # None

\* ------------------------------------------------------------------------
\* C8
\* ------------------------------------------------------------------------

\* TemplateProcessor.process has just returned to the running activation
Processed == stack # <<>> /\ stack[Len(stack)].pc = "composition"

\* the position of the event that entered the running activation
LastEnter == CHOOSE i \in EventsOf("enter") : \A j \in EventsOf("enter") : j <= i

\* the processes the running activation has run
RunsOfTop == {i \in EventsOf("run") : i > LastEnter}

\* "bash" is among the tool names granted to command c
GrantsBash(c) == \E i \in 1..Len(c.allowed_tools) : c.allowed_tools[i] = "bash"

\* the shell markers of a text: blocks and inline snippets
ShellMarkers(t) ==
    {BashBlockFindIter(t)[i].group0 : i \in 1..Len(BashBlockFindIter(t))}
        \cup {BashInlineFindIter(t)[i].group0 : i \in 1..Len(BashInlineFindIter(t))}

\* some warning tells the author to grant bash
AsksForBash(warnings) ==
    \E i \in 1..Len(warnings) :
        Contains(warnings[i],
                 <<"Add 'allowed-tools: [bash]' to frontmatter to enable execution.">>)

\* processes are run if and only if bash is granted (and the template has
\* a shell marker); without the grant none is run and the counter is 0
RunsOnlyIfGranted ==
    Processed =>
      LET f == stack[Len(stack)]
      IN  /\ RunsOfTop # {} => GrantsBash(f.command)
          /\ (GrantsBash(f.command) /\ ShellMarkers(f.template) # {}) => RunsOfTop # {}
          /\ ~GrantsBash(f.command) => (RunsOfTop = {} /\ f.bash_count = 0)
          /\ (~GrantsBash(f.command) /\ ShellMarkers(f.template) # {})
               => AsksForBash(f.p_warnings)

\* C8 as stated: process runs a shell block or inline snippet if and only
\* if "bash" is among the granted tool names; without it no process is
\* run, the bash counter stays 0, every shell marker of the template is
\* still in the content as it was, and a warning asks to grant bash.
C8_MarkersUntouched ==
    /\ RunsOnlyIfGranted
    /\ (Processed /\ ~GrantsBash(stack[Len(stack)].command))
       => \A marker \in ShellMarkers(stack[Len(stack)].template) :
            Contains(stack[Len(stack)].substituted, marker)

\* C8 amended: process runs a shell block or inline snippet if and only if
\* "bash" is among the granted tool names; without it no process is run,
\* the bash counter stays 0, a warning asks to grant bash, and the shell
\* stages leave the text as it is: the content is the template with its
\* file references processed, so a marker without a file reference inside
\* is still in the content as it was, while a file reference written
\* inside a marker is expanded like any other.
C8_MarkersLeftToFileStage ==
    /\ RunsOnlyIfGranted
    /\ (Processed /\ ~GrantsBash(stack[Len(stack)].command))
       => LET f == stack[Len(stack)]
          IN  /\ \E files \in [1..Len(FileRefFindIter(f.template)) -> FileStates] :
                   /\ f.substituted = _process_file_refs(f.template, files).content
                   /\ f.files_count = _process_file_refs(f.template, files).count
              /\ \A marker \in ShellMarkers(f.template) :
                   FileRefFindIter(marker) = <<>> => Contains(f.substituted, marker)

\* a template with a file reference inside an inline marker was processed
\* without the bash grant: nothing was run, the file was included
C8_Witness ==
    /\ Processed
    /\ ~GrantsBash(stack[Len(stack)].command)
    /\ \E marker \in ShellMarkers(stack[Len(stack)].template) :
         ~Contains(stack[Len(stack)].substituted, marker)
    /\ stack[Len(stack)].files_count = 1
    /\ stack[Len(stack)].bash_count = 0

\* ------------------------------------------------------------------------
\* C9
\* ------------------------------------------------------------------------

\* the snippets the running activation's processor has counted so far
Tally(f) == f.p_bash_count + (IF f.pc \in {"bash_blocks", "bash_inline"} THEN f.count ELSE 0)

\* the diagnostic text that starts the replacement for a failing outcome
Diagnostic(o) ==
    IF o.kind = "timeout" THEN TimedOutPrefix \o <<"3", "0">> \o SecondsSuffix
    ELSE IF o.kind = "failed" THEN FailedPrefix \o o.error \o <<"]">>
    ELSE ExitedPrefix \o IntStr(o.returncode) \o <<"]">>

\* the outcome is a non-zero exit, a timeout or a failure to launch
Failing(o) == o.kind # "completed" \/ o.returncode # 0

\* the step in which a snippet fails: nothing is raised, the activation
\* goes on, the counter goes up by one, and where the marker stood the
\* text now starts with the diagnostic
FailureBecomesText ==
    (Len(trace') = Len(trace) + 1 /\ trace'[Len(trace')].ev = "run"
       /\ Failing(trace'[Len(trace')].outcome))
    => LET f == stack[Len(stack)]
           g == stack'[Len(stack)]
           e == trace'[Len(trace')]
           at == Find(f.result, e.marker, 0)
       IN  /\ Len(stack') = Len(stack)
           /\ out' = out
           /\ Tally(g) = Tally(f) + 1
           /\ at >= 0
           /\ Slice(g.result, 0, at) = Slice(f.result, 0, at)
           /\ StartsWithAt(g.result, Diagnostic(e.outcome), at)
           /\ g.pc \in {f.pc, "inline", "files"}

\* nothing raises out of the processor: an error reaches the caller only
\* before any stage has begun; and when process returns, both shell stages
\* were gone through, every marker they found was run whatever the
\* outcomes of the earlier ones, and the counter counts every run
AllSnippetsProcessed ==
    /\ out.status = "raised" => trace = <<>>
    /\ (Processed /\ GrantsBash(stack[Len(stack)].command))
       => LET f == stack[Len(stack)]
              stages == {i \in EventsOf("stage") : i > LastEnter}
              found == {<<i, n>> \in stages \X (1..Len(f.template)) : n <= trace[i].markers}
          IN  /\ {trace[i].kind : i \in stages} = {"block", "inline"}
              /\ Cardinality(RunsOfTop) = Cardinality(found)
              /\ f.bash_count = Cardinality(RunsOfTop)

\* C9: a shell snippet that exits non-zero, times out or fails to launch
\* never raises out of the template processor: its marker is replaced by
\* the diagnostic text (exit-code prefix, timed-out message or
\* command-failed message), the bash counter is incremented for it all the
\* same, and the remaining snippets and stages are still processed.
C9_ShellFaultsBecomeText == []AllSnippetsProcessed /\ [][FailureBecomesText]_vars

\* two snippets of one template were run: the first timed out, the second
\* failed to launch; both were counted and both diagnostics are in the
\* content
C9_Witness ==
    /\ Processed
    /\ stack[Len(stack)].bash_count = 2
    /\ \E i, j \in RunsOfTop :
         /\ i < j
         /\ trace[i].outcome.kind = "timeout"
         /\ trace[j].outcome.kind = "failed"
         /\ Contains(stack[Len(stack)].substituted, Diagnostic(trace[i].outcome))
         /\ Contains(stack[Len(stack)].substituted, Diagnostic(trace[j].outcome))

\* ------------------------------------------------------------------------
\* C10
\* ------------------------------------------------------------------------

\* the path named by a relative token lies in the working directory: the
\* components of the working directory begin those of the resolved path
InsideWorkingDir(file_path_str) ==
    LET resolved == Normalize(PathParts(PathJoin(working_dir, file_path_str), 0), <<>>)
        working_resolved == Normalize(PathParts(working_dir, 0), <<>>)
    IN  /\ Len(resolved) >= Len(working_resolved)
        /\ SubSeq(resolved, 1, Len(working_resolved)) = working_resolved

\* C10: no file is read, hence none included or counted, for a reference
\* whose token is not in absolute-path form and whose resolved path lies
\* outside the working directory.
C10_OutsideNeverIncluded ==
    \A i \in EventsOf("read") :
        trace[i].path[1] = "/" \/ InsideWorkingDir(trace[i].path)

\* ------------------------------------------------------------------------
\* C11
\* ------------------------------------------------------------------------

\* how many of the events q are of one kind
CountOf(q, kind) == Cardinality({i \in 1..Len(q) : q[i].ev = kind})

\* the step in which the file stage of an activation runs: nothing is
\* raised; there is one event for each reference of the text; the counter
\* is the number of files read; one warning is added for each reference
\* left alone, in order; a reference to a missing or unreadable file that
\* was looked for is still in the text, with "File not found" for the
\* missing one and "Failed to read" for the unreadable one; and a stage
\* that reads no file leaves the text as it was
FileFaultsLeaveToken ==
    (stack # <<>> /\ stack[Len(stack)].pc = "files")
    => LET f == stack[Len(stack)]
           g == stack'[Len(stack)]
           new == SubSeq(trace', Len(trace) + 1, Len(trace'))
           added == SubSeq(g.p_warnings, Len(f.p_warnings) + 1, Len(g.p_warnings))
       IN  \/ UNCHANGED vars
           \/ /\ Len(stack') = Len(stack)
              /\ out' = out
              /\ g.pc = "composition"
              /\ Len(new) = Len(FileRefFindIter(f.result))
              /\ g.files_count = CountOf(new, "read")
              /\ Len(added) = CountOf(new, "miss")
              /\ CountOf(new, "read") = 0 => g.result = f.result
              /\ \A i \in 1..Len(new) :
                   (new[i].ev = "miss" /\ new[i].why \in {"missing", "unreadable"})
                   => LET w == added[CountOf(SubSeq(new, 1, i), "miss")]
                      IN  /\ Contains(g.result, <<"@">> \o new[i].path)
                          /\ new[i].why = "missing"
                               => w = <<"File not found: @">> \o new[i].path
                          /\ new[i].why = "unreadable"
                               => Contains(w, <<"Failed to read @">> \o new[i].path)

\* C11: a file reference whose path does not exist or cannot be read never
\* raises: its token stays verbatim in the output, the file counter counts
\* only the files included, and one warning is recorded for the reference
\* ("File not found" for a missing file that was looked for).
C11_FileFaultsBecomeWarnings == [][FileFaultsLeaveToken]_vars

\* one file stage included a file and left alone a reference to a missing
\* one, with its warning
C11_Witness ==
    /\ Processed
    /\ stack[Len(stack)].files_count = 1
    /\ \E i, j \in 1..Len(trace) :
         /\ i > LastEnter /\ j > LastEnter
         /\ trace[i].ev = "read"
         /\ trace[j].ev = "miss" /\ trace[j].why = "missing"
         /\ Contains(stack[Len(stack)].substituted, <<"@">> \o trace[j].path)
         /\ Contains(stack[Len(stack)].p_warnings[1], <<"File not found: @">>)

\* ------------------------------------------------------------------------
\* C12
\* ------------------------------------------------------------------------

\* the whitespace-separated tokens of each argument string of SubArgs
TokensOf(args) ==
    CASE args = <<>> -> <<>>
      [] args = <<"a">> -> <<(<<"a">>)>>
      [] args = <<"a", " ", "b">> -> <<(<<"a">>), (<<"b">>)>>
      [] args = <<" ", "a", " ", " ", "b", " ">> -> <<(<<"a">>), (<<"b">>)>>
      [] args = <<"$", "2", " ", "b">> -> <<(<<"$", "2">>), (<<"b">>)>>

\* the number N a piece $N or {{$N or "d"}} names; -1 for the other pieces
NumberOf(piece) ==
    LET at == IF piece[1] = "$" THEN 2 ELSE 4
    IN  IF Len(piece) < at \/ piece[at] \notin Digits THEN -1
        ELSE IF piece[at] = "0" /\ Len(piece) > at /\ piece[at + 1] = "2" THEN 2
        ELSE CHOOSE n \in 0..9 : IntStr(n) = <<piece[at]>>

\* what a bare piece must become: $N the N-th token when there is one,
\* $ARGUMENTS the raw argument string unless a word character follows it
\* (then it is no variable but part of a longer word), anything else itself
BareValue(piece, following, args) ==
    IF piece = <<"$">> \o ARGUMENTS
    THEN (IF Len(following) > 0 /\ following[1] \in WordChars THEN piece ELSE args)
    ELSE IF NumberOf(piece) >= 1 /\ NumberOf(piece) <= Len(TokensOf(args))
    THEN TokensOf(args)[NumberOf(piece)]
    ELSE piece

\* substitute_variables was applied to a template of bare pieces only
BareApplied ==
    /\ applied.fn = "substitute_variables"
    /\ \A i \in 1..Len(applied.pieces) : applied.pieces[i] \in BarePieces

DefaultOf(piece) ==
    LET q == Find(piece, <<"\"">>, 0)
    IN  Slice(piece, q + 1, Len(piece) - 3)

\* what a fallback piece must become
FallbackValue(piece, args) ==
    IF NumberOf(piece) = -1
    THEN (IF Len(args) > 0 THEN args ELSE DefaultOf(piece))
    ELSE IF NumberOf(piece) >= 1 /\ NumberOf(piece) <= Len(TokensOf(args))
    THEN TokensOf(args)[NumberOf(piece)]
    ELSE DefaultOf(piece)

\* C13: in the text substitute_variables returns, each {{$ARGUMENTS or "d"}}
\* is replaced by the argument string verbatim when that is non-empty and
\* by d otherwise, and each {{$N or "d"}} by the N-th argument token when
\* 1 <= N <= number of tokens and by d otherwise, for every argument
\* string and default.
C13_FallbackForms ==
    (/\ applied.fn = "substitute_variables"
     /\ \A i \in 1..Len(applied.pieces) : applied.pieces[i] \in FallbackPieces)
    => applied.value =
         Concat([i \in 1..Len(applied.pieces) |->
                   FallbackValue(applied.pieces[i], applied.args)])

\* ------------------------------------------------------------------------
\* C14
\* ------------------------------------------------------------------------

\* the permission at position i of the list is a bash permission that
\* matches the command
BashMatch(permissions, i, command) ==
    /\ permissions[i].tool = "bash"
    /\ \/ permissions[i].pattern = None
       \/ allows_command(permissions[i], command)

\* C14: is_bash_command_allowed(command, permissions) answers allowed
\* exactly when some permission of the list with tool "bash" matches the
\* command, a bash permission without a pattern matching every command;
\* its reason is None exactly when it answers allowed.
C14_AllowedIffSomeBashMatches ==
    applied.fn = "is_bash_command_allowed" =>
        LET ps == applied.permissions
            r == applied.value
        IN  /\ r.allowed <=>
                  \E i \in 1..Len(ps) : BashMatch(ps, i, applied.command)
            /\ (\E i \in 1..Len(ps) :
                  ps[i].tool = "bash" /\ ps[i].pattern = None) => r.allowed
            /\ (r.reason = None) <=> r.allowed

\* the second of two patterned bash permissions is the one that matches
C14_Witness ==
    /\ applied.fn = "is_bash_command_allowed"
    /\ applied.permissions =
           <<[tool |-> "bash", pattern |-> <<"g", "i", "t", " ", "a", "d",
                                          "d", ":", "*">>],
             [tool |-> "bash", pattern |-> <<"l", "s", "*">>]>>
    /\ applied.command = <<"l", "s", " ", "-", "l", "a">>
    /\ applied.value = [allowed |-> TRUE, reason |-> None]

\* ------------------------------------------------------------------------
\* C15
\* ------------------------------------------------------------------------

\* the text ends with the suffix
EndsWith(t, suffix) ==
    Len(t) >= Len(suffix) /\ StartsWithAt(t, suffix, Len(t) - Len(suffix))

\* the pattern with one trailing ":*", "*" or ":" removed
OneSuffixRemoved(pattern) ==
    IF EndsWith(pattern, <<":", "*">>) THEN Slice(pattern, 0, Len(pattern) - 2)
    ELSE IF EndsWith(pattern, <<"*">>) \/ EndsWith(pattern, <<":">>)
    THEN Slice(pattern, 0, Len(pattern) - 1)
    ELSE pattern

\* C15: for a bash permission with a pattern, allows_command(command) is
\* true exactly when the command, its leading whitespace trimmed, starts
\* with the pattern less one trailing ":*", "*" or ":".
C15_PrefixOfOneSuffix ==
    (/\ applied.fn = "allows_command"
     /\ applied.perm.tool = "bash"
     /\ applied.perm.pattern # None) =>
        (applied.value <=>
            StartsWithAt(LStrip(applied.command),
                         OneSuffixRemoved(applied.perm.pattern), 0))

\* ------------------------------------------------------------------------
\* C19
\* ------------------------------------------------------------------------

\* the text an activation carries on from its composition loop
TextAfter(g) == IF g.pc = "finish" THEN g.substituted ELSE g.result

\* the warnings an activation has gathered, those of its loop included
AllWarnings(g) ==
    IF g.pc = "finish" THEN g.warnings ELSE g.warnings \o g.c_warnings

\* how many token prefixes a warning carries
Prefixes(w) == Cardinality({i \in 1..Len(w) : w[i] = "[/"})

\* a returning nested call: its prompt takes the place of the span of its
\* token, its warnings are appended with the token as prefix
SplicesNested ==
    (Len(stack) > 1 /\ Top.pc = "finish") =>
        LET outer == stack[Len(stack) - 1]
            m == Head(outer.matches)
            nested == ResultOf(Top)
            after == stack'[Len(stack) - 1]
        IN  /\ Len(stack') = Len(stack) - 1
            /\ TextAfter(after) =
                   Slice(outer.result, 0, m.start) \o nested.prompt
                       \o From(outer.result, m.end)
            /\ AllWarnings(after) =
                   AllWarnings(outer)
                       \o [i \in 1..Len(nested.warnings) |->
                             <<"[/">> \o m.group1 \o <<"] ">> \o nested.warnings[i]]

\* the depth overflow is raised five levels below the top-level call
OverflowCarriesFivePrefixes ==
    Done => \A i \in 1..Len(out.result.warnings) :
                MentionsDepth(out.result.warnings[i])
                    => Prefixes(out.result.warnings[i]) = MAX_COMPOSITION_DEPTH

\* C19: when a nested invocation has executed, the span of its token is
\* replaced by the nested prompt and each nested warning is appended to
\* the outer warnings behind the prefix "[/token] "; a warning raised k
\* levels down reaches the top-level result with k prefixes (the depth
\* overflow, raised five levels down, with five).
C19_NestedSpliceAndPrefixes ==
    [][SplicesNested]_vars /\ []OverflowCarriesFivePrefixes

\* /h ran /g one level down: the prompt of /g stands where the token
\* stood and its truncation warning comes back with one prefix
C19_Witness ==
    /\ Done
    /\ call.command_name = <<"h">>
    /\ CountAt("return", 1) = 1
    /\ ~Contains(out.result.prompt, <<"/", "g">>)
    /\ \E i \in 1..Len(out.result.warnings) :
           /\ Prefixes(out.result.warnings[i]) = 1
           /\ SubSeq(out.result.warnings[i], 1, 4)
                  = <<"[/", "g", "] ", "Content truncated from ">>

\* ------------------------------------------------------------------------
\* C20
\* ------------------------------------------------------------------------

\* the token of match m names no command of the store
Unregistered(m) ==
    ~get_command(commands, SpecName(m.group1), SpecNamespace(m.group1)).found

\* an activation in its composition loop keeps, through every step, each
\* unregistered token it has come to (tokens are handled right to left,
\* so a token stands at a fixed distance from the end of the text), and
\* the step that comes to one adds no activation, no warning and no error
KeepsUnregistered ==
    \A i \in 1..Len(stack) :
        (stack[i].pc = "compose" /\ i <= Len(stack')) =>
            LET f == stack[i]
                g == stack'[i]
                all == CommandFindIter(f.substituted)
                n0 == Len(f.substituted)
                n1 == Len(TextAfter(g))
            IN  /\ \A k \in 1..Len(all) :
                      (all[k].start >= Head(f.matches).start /\ Unregistered(all[k]))
                          => Slice(TextAfter(g), n1 - (n0 - all[k].start),
                                   n1 - (n0 - all[k].end))
                                 = Slice(f.substituted, all[k].start, all[k].end)
                /\ (i = Len(stack) /\ Unregistered(Head(f.matches))) =>
                      /\ Len(stack') <= Len(stack)
                      /\ TextAfter(g) = f.result
                      /\ AllWarnings(g) = AllWarnings(f)
                      /\ out' = out

\* C20: a nested token whose (name, namespace) is not in the store stays
\* in the composed text exactly as written, starts no nested execution
\* and adds no warning or error.
C20_UnregisteredTokenUntouched == [][KeepsUnregistered]_vars

\* /m with its partner n:c not registered: the token is the prompt
C20_Witness ==
    /\ Done
    /\ call.command_name = <<"m">>
    /\ CountAt("skip", 1) = 1
    /\ EnteredDepths = {0}
    /\ out.result.prompt = <<"/", "n", ":", "c">>
    /\ out.result.warnings = <<>>

\* ------------------------------------------------------------------------
\* Observations on two calls and a reload
\* ------------------------------------------------------------------------

\* the call the event loop is running
Active == [stack |-> stack, call |-> call, out |-> out, trace |-> trace]

\* the step swaps the two tasks
Switched == sched'.parked = Active /\ sched.parked # Active

\* the call is suspended on a shell command
WaitingForShell(c) ==
    c.stack # <<>> /\ Last(c.stack).pc \in {"bash_blocks", "bash_inline"}

\* the call has been handed over and has not come to its end
Unfinished(c) == c.out.status \in {"idle", "running"}

\* ------------------------------------------------------------------------
\* C16
\* ------------------------------------------------------------------------

\* the step is a lookup of the running call in the store: the lookup at
\* the head of a top-level execute_full, or that of the composition loop
LookupStep ==
    /\ ~Switched
    /\ \/ out.status = "idle" /\ out' # out
       \/ stack # <<>> /\ stack[Len(stack)].pc = "compose" /\ stack' # stack

\* C16: every lookup of an execution in flight finds the store holding
\* either all it held before the reload or all it holds after it.
C16_LookupSeesWholeStore ==
    [][LookupStep => commands \in {sched.reload.before, sched.reload.after}]_vars

\* ------------------------------------------------------------------------
\* C17
\* ------------------------------------------------------------------------

\* C17: while the running call waits for its shell command, the event
\* loop is free to turn to the other call whenever that one has work left.
C17_WaitingCallFreesLoop ==
    (WaitingForShell(Active) /\ Unfinished(sched.parked)) => ENABLED Switch

\* /k still waits for its first shell command (none of its commands has
\* finished) while the other call, /h, has run from start to end
C17_Witness ==
    /\ WaitingForShell(sched.parked)
    /\ sched.parked.call.command_name = CmdBlock.name
    /\ \A i \in 1..Len(sched.parked.trace) : sched.parked.trace[i].ev # "run"
    /\ call.command_name = CmdLong2.name
    /\ out.status = "returned"
    /\ sched.reload.pc = "idle"

\* ------------------------------------------------------------------------
\* C18
\* ------------------------------------------------------------------------

\* a step of the running call leaves the store and the other call as they
\* are; the store changes in steps of the reload only
StepsAreLocal ==
    /\ (stack' # stack \/ call' # call \/ out' # out \/ trace' # trace)
           => commands' = commands
    /\ sched'.parked # sched.parked => Switched
    /\ Switched => /\ Active' = sched.parked
                   /\ commands' = commands

\* two calls with the same arguments that met the same shell outcomes on
\* an unchanged store have the same result, however they were interleaved
SameCallSameResult ==
    (/\ sched.reload.pc = "idle"
     /\ out.status = "returned"
     /\ sched.parked.out.status = "returned"
     /\ call = sched.parked.call
     /\ trace = sched.parked.trace) => out = sched.parked.out

StartsNested ==
    /\ stack # <<>>
    /\ stack[Len(stack)].pc = "compose"
    /\ Len(stack') = Len(stack) + 1

\* when the nested execution of a token starts, no resolved token that
\* stands before it in the text is still to be executed
EarlierTokensFirst ==
    StartsNested =>
        LET f == stack[Len(stack)]
        IN  \A k \in 2..Len(f.matches) :
                Unregistered(f.matches[k])
                    \/ f.matches[k].start > Head(f.matches).start

\* C21: the nested invocations of one text are executed one at a time in
\* left-to-right document order: of two resolved tokens, the execution of
\* the earlier one starts and finishes before that of the later one.
C21_LeftToRightOrder == [][EarlierTokensFirst]_vars

\* ------------------------------------------------------------------------
\* C22
\* ------------------------------------------------------------------------

\* the (name, namespace) pairs of the commands of a list
KeysOf(list) == {<<list[i].name, list[i].namespace>> : i \in 1..Len(list)}

\* the positions of a list that hold a command of the pair
Holding(list, pair) ==
    {i \in 1..Len(list) : <<list[i].name, list[i].namespace>> = pair}

\* C22: of a (name, namespace) defined in the project and in the user
\* directory, discovery yields one command, the project's; after
\* discover_and_load the store holds one entry for each distinct pair,
\* the project's where both define it, and the count returned is the
\* number of entries.
C22_ProjectOverridesUser ==
    applied.fn = "discover_and_load" =>
        LET p == applied.project_commands
            u == applied.user_commands
            d == applied.discovered
        IN  /\ \A pair \in KeysOf(p) \cap KeysOf(u) :
                  /\ Cardinality(Holding(d, pair)) = 1
                  /\ \A i \in Holding(d, pair) : d[i].scope = <<"p", "r", "o", "j", "e", "c", "t">>
                  /\ commands[_make_key(pair[1], pair[2])].scope
                         = <<"p", "r", "o", "j", "e", "c", "t">>
            /\ DOMAIN commands = {_make_key(pair[1], pair[2]) : pair \in KeysOf(p) \cup KeysOf(u)}
            /\ Cardinality(DOMAIN commands) = Cardinality(KeysOf(p) \cup KeysOf(u))
            /\ applied.value = Cardinality(KeysOf(p) \cup KeysOf(u))

\* /a is defined in both directories, /b by the user only: two entries,
\* /a the project's
C22_Witness ==
    /\ applied.fn = "discover_and_load"
    /\ KeysOf(applied.project_commands) = {<<(<<"a">>), None>>}
    /\ KeysOf(applied.user_commands) = {<<(<<"b">>), None>>, <<(<<"a">>), None>>}
    /\ applied.value = 2
    /\ commands[<<"a">>].scope = <<"p", "r", "o", "j", "e", "c", "t">>
    /\ commands[<<"b">>].scope = <<"u", "s", "e", "r">>

\* ------------------------------------------------------------------------
\* C30
\* ------------------------------------------------------------------------

\* the patterns of the bash permissions of the list that have one, quoted
\* and joined as the denial lists them
PatternList(permissions) ==
    LET with == SelectSeq(permissions,
                          LAMBDA p : p.tool = "bash" /\ p.pattern # None)
    IN  Join(<<",", " ">>,
             [i \in 1..Len(with) |-> <<"'">> \o with[i].pattern \o <<"'">>])

\* C30: a denial of is_bash_command_allowed is never "No matching
\* permission found": it is "bash not in allowed-tools" when the list has
\* no bash permission, and otherwise the message listing the patterns of
\* the bash permissions that have one.
C30_DenialNamesItsCause ==
    (applied.fn = "is_bash_command_allowed" /\ ~applied.value.allowed) =>
        LET ps == applied.permissions
            reason == applied.value.reason
        IN  /\ reason # <<"No matching permission found">>
            /\ IF \A i \in 1..Len(ps) : ps[i].tool # "bash"
               THEN reason = <<"bash not in allowed-tools">>
               ELSE /\ PatternList(ps) # <<>>
                    /\ reason = <<"Command does not match allowed patterns: ">>
                                    \o PatternList(ps)

\* two patterned bash permissions, neither matches: both are listed
C30_Witness ==
    /\ applied.fn = "is_bash_command_allowed"
    /\ applied.command = <<"r", "m">>
    /\ Len(applied.permissions) = 2
    /\ \A i \in 1..2 : /\ applied.permissions[i].tool = "bash"
                       /\ applied.permissions[i].pattern # None
    /\ applied.permissions[1] # applied.permissions[2]
    /\ ~applied.value.allowed
    /\ Len(applied.value.reason) > 1

\* ------------------------------------------------------------------------
\* C25
\* ------------------------------------------------------------------------

\* the step returns the result of the top-level call, whose content
\* exceeds its positive ceiling
TruncatingReturn ==
    /\ Len(stack) = 1
    /\ stack' = <<>>
    /\ stack[1].command.max_chars > 0
    /\ Len(stack[1].substituted) > stack[1].command.max_chars

\* the text is a prefix of the content, its trailing whitespace removed,
\* followed by the truncation marker
MarkedPrefix(text, content) ==
    \E n \in 0..Len(content) :
        text = RStrip(Slice(content, 0, n)) \o truncation_msg

\* C25: whenever the content exceeds the positive ceiling, the text
\* returned is a prefix of the content with trailing whitespace removed,
\* followed by the truncation marker.
C25_TruncatedEndsWithMarker ==
    [][TruncatingReturn
          => MarkedPrefix(out'.result.prompt, stack[1].substituted)]_vars

\* the same for ceilings that leave room for the marker; a ceiling no
\* longer than the marker gives the first max_chars characters, unmarked
MarkerWhenRoom ==
    TruncatingReturn =>
        LET content == stack[1].substituted
            max_chars == stack[1].command.max_chars
        IN  IF max_chars > Len(truncation_msg)
            THEN MarkedPrefix(out'.result.prompt, content)
            ELSE out'.result.prompt = Slice(content, 0, max_chars)

C25_MarkerWhenRoom == [][MarkerWhenRoom]_vars

\* /g with ceiling 54 is cut after the sentence end, the blank removed
C25_Witness ==
    /\ Done
    /\ call.command_name = CmdLong.name
    /\ call.process_advanced
    /\ out.result.prompt
           = <<"a", "a", "a", "a", " ", "b", "b", "b", "b", ".">> \o truncation_msg

\* ------------------------------------------------------------------------
\* C24
\* ------------------------------------------------------------------------

\* the place of a warning of process in the order block, inline, file
StageRank(w) == IF w = BlockWarning THEN 1 ELSE IF w = InlineWarning THEN 2 ELSE 3

\* a step of the running activation inside TemplateProcessor.process moves
\* it along block stage, inline stage, file stage; a shell stage is
\* entered only with its marker in the current text, the file stage
\* changes nothing without a reference; the warnings handed back are in
\* the order of the stages
StagesInOrder ==
    (stack # <<>> /\ Len(stack') = Len(stack)) =>
        LET f == stack[Len(stack)]
            g == stack'[Len(stack)]
        IN  /\ f.pc = "process" =>
                  /\ g.pc \in {"bash_blocks", "inline"}
                  /\ g.pc = "bash_blocks" => BashBlockFindIter(f.result) # <<>>
            /\ f.pc = "bash_blocks" => g.pc \in {"bash_blocks", "inline"}
            /\ f.pc = "inline" =>
                  /\ g.pc \in {"bash_inline", "files"}
                  /\ g.pc = "bash_inline" => BashInlineFindIter(f.result) # <<>>
            /\ f.pc = "bash_inline" => g.pc \in {"bash_inline", "files"}
            /\ f.pc = "files" =>
                  /\ g.pc = "composition"
                  /\ FileRefFindIter(f.result) = <<>> =>
                        /\ g.result = f.result
                        /\ g.p_warnings = f.p_warnings
                        /\ g.files_count = 0
                  /\ \A i, j \in 1..Len(g.p_warnings) :
                        i < j => StageRank(g.p_warnings[i]) <= StageRank(g.p_warnings[j])
                  /\ g.warnings = f.warnings \o g.p_warnings

\* C24: process runs the block stage, the inline stage and the file stage
\* in this order, each only when its marker is in the current text, and
\* returns the block warnings before the inline warnings before the file
\* warnings.
C24_StagesInFixedOrder == [][StagesInOrder]_vars

\* /v, bash not granted: the inline warning, then the warning of its file
\* reference
C24_Witness ==
    /\ stack # <<>>
    /\ stack[1].pc = "composition"
    /\ call.command_name = CmdNoTools.name
    /\ Len(stack[1].p_warnings) = 2
    /\ stack[1].p_warnings[1] = InlineWarning
    /\ StageRank(stack[1].p_warnings[2]) = 3

\* ------------------------------------------------------------------------
\* C26
\* ------------------------------------------------------------------------

\* in an activation inside its composition loop, the text up to the end
\* of the token to be handled next is still the text the matches were
\* computed on
UnhandledPartIntact ==
    \A i \in 1..Len(stack) :
        stack[i].pc = "compose" =>
            LET h == Head(stack[i].matches)
            IN  Slice(stack[i].result, 0, h.end)
                    = Slice(stack[i].substituted, 0, h.end)

\* a step changes the text of such an activation inside the span of the
\* token handled only: what stands before the span and what stands
\* behind it is kept, whatever the length of what takes its place
SpliceKeepsOutside ==
    \A i \in 1..Len(stack) :
        (stack[i].pc = "compose" /\ i <= Len(stack')) =>
            LET f == stack[i]
                h == Head(f.matches)
                new == TextAfter(stack'[i])
                behind == Len(f.result) - h.end
            IN  /\ Len(new) >= h.start + behind
                /\ Slice(new, 0, h.start) = Slice(f.result, 0, h.start)
                /\ From(new, Len(new) - behind) = From(f.result, h.end)
                /\ new # f.result =>
                      /\ ~Unregistered(h)
                      /\ i = Len(stack) - 1
                      /\ new = Slice(f.result, 0, h.start)
                                   \o ResultOf(stack[Len(stack)]).prompt
                                   \o From(f.result, h.end)

\* C26: the matches of a text are computed once and replaced from last to
\* first: a resolved token is replaced at its own span, and every
\* character outside the spans of the resolved tokens is kept, in place
\* and order, whatever the lengths of the nested prompts.
C26_ReplacedAtOwnSpan == [][SpliceKeepsOutside]_vars /\ []UnhandledPartIntact

\* /t: the second token has been replaced by a prompt of another length
\* and the first token still stands at its span
C26_Witness ==
    /\ Len(stack) = 1
    /\ stack[1].pc = "compose"
    /\ call.command_name = CmdTree.name
    /\ Len(stack[1].matches) = 1
    /\ Len(stack[1].result) # Len(stack[1].substituted)
    /\ Slice(stack[1].result, 0, 4) = <<"/", "t", " ", "x">>

\* ------------------------------------------------------------------------
\* C23
\* ------------------------------------------------------------------------

\* the position of the event that opened the shell stage in progress
LastStage == CHOOSE i \in EventsOf("stage") : \A j \in EventsOf("stage") : j <= i

\* the outputs of the processes the stage in progress has run, in order
RECURSIVE OutputsFrom(_)
OutputsFrom(i) ==
    IF i > Len(trace) THEN <<>>
    ELSE IF trace[i].ev = "run"
    THEN <<_execute_bash(trace[i].outcome)>> \o OutputsFrom(i + 1)
    ELSE OutputsFrom(i + 1)

\* text t with the spans of its first Len(outs) matches, from match i
\* on, replaced by the outputs; the text before position p is done
RECURSIVE SpanSub(_, _, _, _, _)
SpanSub(t, ms, outs, i, p) ==
    IF i > Len(outs) THEN From(t, p)
    ELSE Slice(t, p, ms[i].start) \o outs[i] \o SpanSub(t, ms, outs, i + 1, ms[i].end)

\* C23: within a shell stage every marker is replaced at its own span by
\* the output of its own command: after the first n commands of a stage
\* the text is the stage's input with the spans of its first n markers
\* holding the n outputs, and an output inserted earlier is not touched by
\* a later replacement.
C23_MarkersReplacedInPlace ==
    (stack # <<>> /\ Top.pc \in {"bash_blocks", "bash_inline", "inline", "files"}
        /\ EventsOf("stage") # {}) =>
        LET E == trace[LastStage]
            ms == IF E.kind = "block" THEN BashBlockFindIter(E.text)
                  ELSE BashInlineFindIter(E.text)
        IN  Top.result = SpanSub(E.text, ms, OutputsFrom(LastStage), 1, 0)

\* ------------------------------------------------------------------------
\* C27
\* ------------------------------------------------------------------------

\* C27: a nested invocation takes its arguments from the line of its token
\* only: the span of the token ends with its line, the arguments passed
\* are what stands between the name and the end of that line (nothing, if
\* the name ends the line), and the following lines stay in the text.
C27_ArgumentsFromOwnLine ==
    \A i \in 2..Len(stack) :
        LET f == stack[i - 1]
            m == Head(f.matches)
            line_end == LineEnd(f.substituted, m.start)
            name_end == m.start + 1 + Len(m.group1)
        IN  /\ m.end <= line_end
            /\ stack[i].args = Strip(Slice(f.substituted, name_end, line_end))

\* ------------------------------------------------------------------------
\* C28
\* ------------------------------------------------------------------------

\* the position of the event that opened the running activation's pass
\* through TemplateProcessor.process
LastProcess ==
    CHOOSE i \in EventsOf("stage") :
        /\ trace[i].kind = "block"
        /\ \A j \in EventsOf("stage") : trace[j].kind = "block" => j <= i

\* how many shell markers a template has: its blocks, and its inline
\* snippets outside the blocks
MarkerCount(t) ==
    LET blocks == BashBlockFindIter(t)
        inline == BashInlineFindIter(t)
    IN  Len(blocks)
          + Cardinality({i \in 1..Len(inline) :
                \A b \in 1..Len(blocks) :
                    \/ inline[i].end <= blocks[b].start
                    \/ inline[i].start >= blocks[b].end})

\* the paths the file references of a template name
ReferencedPaths(t) == {FileRefFindIter(t)[i].group1 : i \in 1..Len(FileRefFindIter(t))}

\* C28: what a shell command prints is data: one pass of process runs as
\* many processes as the template it was given has shell markers (none
\* without the bash grant), and looks up no file but those the template
\* it was given refers to.
C28_ShellOutputIsData ==
    (stack # <<>> /\ Top.pc \in {"files", "composition"} /\ Top.process_advanced) =>
        LET given == trace[LastProcess].text
            after == {j \in 1..Len(trace) : j > LastProcess}
        IN  /\ Cardinality(after \cap EventsOf("run"))
                 = IF bash_allowed(Top.command.allowed_tools) THEN MarkerCount(given) ELSE 0
            /\ \A j \in after \cap (EventsOf("read") \cup EventsOf("miss")) :
                  trace[j].path \in ReferencedPaths(given)

\* ------------------------------------------------------------------------
\* C29
\* ------------------------------------------------------------------------

\* C29: through the tool, a command that disables model invocation is
\* never rendered: no activation, top-level or nested, is of such a
\* command, and a direct request for one ends in a failure result with
\* no step of the pipeline taken.
C29_HiddenNeverRendered ==
    /\ \A i \in 1..Len(stack) : ~stack[i].command.disable_model_invocation
    /\ out.status = "refused" => (trace = <<>> /\ ~ToolResult.success)

====
